---- MODULE Spec2Model ----
(***************************************************************************)
(* Verification model of tmcli (nvanwyen/tmcli).                           *)
(*                                                                         *)
(* Part I  - the live monitor (ui/monitor.go) run by the bubbletea         *)
(*           runtime, standalone (main.go runMonitor) and embedded in the  *)
(*           TUI (ui/model.go).                                            *)
(* Part II - the preferences parser (tmutil/snapshot.go).                  *)
(* Part III - the accessors of BackupPrefs (tmutil/snapshot.go).           *)
(* Part IV - the status text parsers (tmutil/tmutil.go).                   *)
(* Part V  - the status operation and its idle report (tmutil/backup.go).  *)
(* Part VI - the commands and their Execute functions (ui/command.go,      *)
(*           tmutil/*.go).                                                 *)
(* Part VII - the menus, the form and the output view of the TUI           *)
(*           (ui/model.go, ui/input.go).                                   *)
(* Part VIII - the formatters of byte counts and durations                 *)
(*           (tmutil/tmutil.go).                                           *)
(* Part IX - the progress bar of the monitor (ui/monitor.go).              *)
(***************************************************************************)
EXTENDS Integers, Sequences, FiniteSets, TLC

\* Bounds of the model.
MaxCmds == 6      \* commands (ticks and polls) the runtime launches in one run
MaxInst == 2      \* MonitorModel instances created in one run of the TUI
MaxEntries == 2   \* entries of the Destinations array of a preferences text
MaxNested == 1    \* dictionaries inside arrays in a preferences text
MaxNestedDates == 1   \* timestamp members in a text with such dictionaries
MaxDates == 2     \* timestamp members in a preferences text
MaxTopEntries == 1   \* entries of Destinations in a text read for AutoBackup
MaxDateSeq == 2   \* members of SnapshotDates and of AttemptDates given to an accessor
MaxScalars == 3   \* scalar assignment lines of a status text
MaxDicts == 2     \* nested dictionaries of a status text
MaxReportDates == 2   \* snapshot dates the preferences hold when status is served
MaxArgs == 2      \* arguments of a command run from the command line
MaxLines == 4     \* lines of a text of arbitrary lines
MaxTeaCmds == 2   \* commands and form messages the TUI Model sends off in one run
MaxLimbs == 5     \* groups of three decimal digits of a byte count
MaxDays == 2      \* whole days of a duration
MaxOver == 50     \* thousandths by which a percent leaves the range 0 to 1

VARIABLES
    mode,       \* "cli": MonitorModel is the program; "tui": Model is the program;
                \* "prefs": a run of parseDestinationBlock (Part II);
                \* "dates": the accessors of a BackupPrefs (Part III);
                \* "status": a run of the status text parsers (Part IV);
                \* "report": the status operation (Part V);
                \* "exec": a command run from the command line (Part VI);
                \* "lines": the parsers over arbitrary lines;
                \* "nav": the TUI Model with its menus (Part VII);
                \* "input": the TUI Model in the form of a command (Part VII);
                \* "views": the TUI Model across its views (Part VII);
                \* "scroll": the TUI Model in its output view (Part VII);
                \* "format": a formatter applied to an argument (Part VIII);
                \* "bar": renderProgressBar applied to a percent (Part IX)
    view,       \* Model.view
    monitor,    \* the MonitorModel value (Model.monitor in the TUI)
    width,      \* width/height of the top-level model (last WindowSizeMsg)
    height,
    pending,    \* commands in flight and their undelivered messages
    quit,       \* tea.Quit has been returned: the program has ended
    nextId,     \* number of commands launched so far
    inst,       \* history: number of MonitorModel instances created so far
    issued,     \* history: samples issued by the current instance (Init/Update)
    applied,    \* history: statusUpdateMsgs applied to the current instance
    ps,         \* the locals of parseDestinationBlock
    prefs,      \* the BackupPrefs parseDestinationBlock fills
    gen,        \* history: where in the preferences text the next line stands
    expected,   \* history: what the first destination entry of the text holds
    derived,    \* the values the accessors of prefs have returned
    sf,         \* parseFields: the map fields and the local inProgress
    sp,         \* parseProgress: the map progress and the local inProgress
    sgen,       \* history: where in the status text the next line stands, and
                \* what the lines so far hold
    env,        \* what each subprocess answers while a command is served
    rep,        \* what the status operation did and returned
    nav,        \* the TUI Model with its menus, form and output view, and the
                \* commands and messages of the runtime still in flight
    exec,       \* a command's Execute function, its arguments and its result
    fmt,        \* a formatter of tmutil.go, its argument and its result
    text        \* history: the lines given so far to the parsers, in the runs
                \* over arbitrary lines

uiVars == <<mode, view, monitor, width, height, pending, quit, nextId, inst,
            issued, applied>>

prefsVars == <<ps, prefs, gen, expected>>

statusVars == <<sf, sp, sgen>>

reportVars == <<derived, env, rep>>

toolVars == <<nav, exec, fmt, text>>

vars == <<uiVars, prefsVars, statusVars, reportVars, toolVars>>

(***************************************************************************)
(* Part I: MonitorModel                                                    *)
(***************************************************************************)

NoErr == "nil"                      \* Go's nil error
Errs == {"exit status 1"}           \* errors GetStatus can return
NoCmd == "nil"                      \* Go's nil tea.Cmd

\* tmutil.StatusInfo without Destination and StartedAt; Percent and
\* TimeRemaining, float64 in the source, are kept in thousandths.
ZeroInfo == [Running |-> FALSE, Phase |-> <<>>, Percent |-> 0, TimeRemaining |-> 0,
             BytesCopied |-> 0, TotalBytes |-> 0, FilesCopied |-> 0, TotalFiles |-> 0]

\* ui.NewMonitorModel
NewMonitorModel == [info |-> ZeroInfo, err |-> NoErr, width |-> 0, height |-> 0,
                    done |-> FALSE]

\* MonitorModel.Init
MonitorInit == "pollStatus"

\* Variants of ApplyStatusUpdate with one slip each.
\* The completion test moved out of the err == nil branch.
ApplyStatusUpdate_DoneOutsideErrCheck(m, msg) ==
    LET m1 == [m EXCEPT !.err = msg.err]
        m2 == IF msg.err = NoErr THEN [m1 EXCEPT !.info = msg.info] ELSE m1
        m3 == IF ~m2.info.Running THEN [m2 EXCEPT !.done = TRUE] ELSE m2
    IN  [m |-> m3, cmd |-> "tickCmd"]

\* done assigned from the sample instead of only ever set.
ApplyStatusUpdate_DoneFollowsRunning(m, msg) ==
    LET m1 == [m EXCEPT !.err = msg.err]
        m2 == IF msg.err = NoErr THEN [m1 EXCEPT !.info = msg.info] ELSE m1
        m3 == IF msg.err = NoErr
              THEN [m2 EXCEPT !.done = ~m2.info.Running] ELSE m2
    IN  [m |-> m3, cmd |-> "tickCmd"]

\* A failed sample ends the sampling.
ApplyStatusUpdate_StopOnError(m, msg) ==
    LET m1 == [m EXCEPT !.err = msg.err]
        m2 == IF msg.err = NoErr THEN [m1 EXCEPT !.info = msg.info] ELSE m1
        m3 == IF msg.err = NoErr /\ ~m2.info.Running
              THEN [m2 EXCEPT !.done = TRUE] ELSE m2
    IN  [m |-> m3, cmd |-> IF msg.err = NoErr THEN "tickCmd" ELSE NoCmd]

\* The snapshot assigned outside the err == nil branch.
ApplyStatusUpdate_InfoOnError(m, msg) ==
    LET m1 == [m EXCEPT !.err = msg.err]
        m2 == [m1 EXCEPT !.info = msg.info]
        m3 == IF msg.err = NoErr /\ ~m2.info.Running
              THEN [m2 EXCEPT !.done = TRUE] ELSE m2
    IN  [m |-> m3, cmd |-> "tickCmd"]

\* MonitorModel.Update, case statusUpdateMsg.
ApplyStatusUpdate(m, msg) ==
    LET m1 == [m EXCEPT !.err = msg.err]
        m2 == IF msg.err = NoErr THEN [m1 EXCEPT !.info = msg.info] ELSE m1
        m3 == IF msg.err = NoErr /\ ~m2.info.Running
              THEN [m2 EXCEPT !.done = TRUE] ELSE m2
    IN  [m |-> m3, cmd |-> "tickCmd"]

\* MonitorModel.Update: the new model and the command it returns.
MonitorUpdate(m, msg) ==
    CASE msg.type = "WindowSizeMsg" ->
            [m |-> [m EXCEPT !.width = msg.Width, !.height = msg.Height],
             cmd |-> NoCmd]
      [] msg.type = "KeyMsg" ->
            IF msg.key \in {"q", "ctrl+c", "esc"}
            THEN [m |-> m, cmd |-> "Quit"]
            ELSE [m |-> m, cmd |-> NoCmd]
      [] msg.type = "statusUpdateMsg" -> ApplyStatusUpdate(m, msg)
      [] msg.type = "statusTickMsg" -> [m |-> m, cmd |-> "pollStatus"]
      [] OTHER -> [m |-> m, cmd |-> NoCmd]

(***************************************************************************)
(* The bubbletea runtime: a returned command runs on its own goroutine and *)
(* its message is handed to Update later, in no fixed order with respect   *)
(* to the other messages.  An entry of pending is                          *)
(*   kind "tick"   - tea.Tick(pollInterval) waiting to send statusTickMsg  *)
(*   kind "poll"   - pollStatus running tmutil.GetStatus                   *)
(*   kind "update" - the statusUpdateMsg of a finished pollStatus          *)
(* owner and sample are history: the instance whose Init/Update returned   *)
(* the command, and the number of the sample among that instance's.        *)
(***************************************************************************)
Item(id, kind, owner, sample, err, running) ==
    [id |-> id, kind |-> kind, owner |-> owner, sample |-> sample,
     err |-> err, running |-> running]

\* pending after the runtime has started command cmd, returned by instance
\* owner, as the runtime's id-th command; a poll is that instance's sample-th.
Launch(pend, cmd, id, owner, sample) ==
    CASE cmd = "pollStatus" ->
            pend \cup {Item(id, "poll", owner, sample, NoErr, FALSE)}
      [] cmd = "tickCmd" ->
            pend \cup {Item(id, "tick", owner, 0, NoErr, FALSE)}
      [] OTHER -> pend

\* The message a pending entry delivers.
MsgOf(p) ==
    IF p.kind = "tick"
    THEN [type |-> "statusTickMsg"]
    ELSE [type |-> "statusUpdateMsg", info |-> [ZeroInfo EXCEPT !.Running = p.running],
          err |-> p.err]

\* History kept when the current instance's Update returns cmd for message p.
Issued(cmd) == IF cmd = "pollStatus" THEN issued + 1 ELSE issued
Applied(p) ==
    IF p.kind = "update"
    THEN Append(applied, [owner |-> p.owner, sample |-> p.sample,
                          err |-> p.err, running |-> p.running])
    ELSE applied
Launched(cmd) == IF cmd \in {"pollStatus", "tickCmd"} THEN nextId + 1 ELSE nextId

\* Key presses of the model.  In the TUI the cursors stay where NewModel puts
\* them and "enter" is not pressed: the Backup category (hotkey b) and its
\* Monitor command (hotkey m) are reached by their hotkeys.
Keys == {"q", "ctrl+c", "esc", "backspace", "b", "m", "x"}
WinSizes == {<<80, 24>>, <<120, 40>>}

(***************************************************************************)
(* Part II: tmutil/snapshot.go, parseDestinationBlock                      *)
(*                                                                         *)
(* A Go string is a sequence of one-character strings, so that the trims,  *)
(* splits and comparisons of the parser are computed character by          *)
(* character.                                                              *)
(***************************************************************************)

\* strings.TrimSpace
IsSpace(c) == c \in {" ", "\t", "\r"}

RECURSIVE TrimLeftSpace(_)
TrimLeftSpace(s) ==
    IF s # <<>> /\ IsSpace(Head(s)) THEN TrimLeftSpace(Tail(s)) ELSE s

RECURSIVE TrimRightSpace(_)
TrimRightSpace(s) ==
    IF s # <<>> /\ IsSpace(s[Len(s)])
    THEN TrimRightSpace(SubSeq(s, 1, Len(s) - 1)) ELSE s

TrimSpace(s) == TrimRightSpace(TrimLeftSpace(s))

\* strings.HasPrefix, strings.HasSuffix, strings.TrimSuffix
HasPrefix(s, p) == Len(s) >= Len(p) /\ SubSeq(s, 1, Len(p)) = p
HasSuffix(s, p) == Len(s) >= Len(p) /\ SubSeq(s, Len(s) - Len(p) + 1, Len(s)) = p
TrimSuffix(s, p) == IF HasSuffix(s, p) THEN SubSeq(s, 1, Len(s) - Len(p)) ELSE s

\* strings.Index, 1-based, 0 when sep does not occur; strings.Contains
Index(s, sep) ==
    LET at == {i \in 1..(Len(s) - Len(sep) + 1) : SubSeq(s, i, i + Len(sep) - 1) = sep}
    IN  IF at = {} THEN 0 ELSE CHOOSE i \in at : \A j \in at : i <= j
Contains(s, sub) == Index(s, sub) # 0

\* strings.SplitN(s, sep, 2)
SplitN2(s, sep) ==
    LET i == Index(s, sep)
    IN  IF i = 0 THEN <<s>>
        ELSE <<SubSeq(s, 1, i - 1), SubSeq(s, i + Len(sep), Len(s))>>

\* strings.Trim(s, cutset): every leading and trailing character of cutset
RECURSIVE TrimLeft(_, _)
TrimLeft(s, cutset) ==
    IF s # <<>> /\ Head(s) \in cutset THEN TrimLeft(Tail(s), cutset) ELSE s

RECURSIVE TrimRight(_, _)
TrimRight(s, cutset) ==
    IF s # <<>> /\ s[Len(s)] \in cutset
    THEN TrimRight(SubSeq(s, 1, Len(s) - 1), cutset) ELSE s

Trim(s, cutset) == TrimRight(TrimLeft(s, cutset), cutset)

Quote == {"\""}

\* Decimal digits and their values.
DigitChars == <<"0", "1", "2", "3", "4", "5", "6", "7", "8", "9">>
IsDigit(c) == \E i \in DOMAIN DigitChars : DigitChars[i] = c
DigitVal(c) == (CHOOSE i \in DOMAIN DigitChars : DigitChars[i] = c) - 1

RECURSIVE Decimal(_)
Decimal(s) == IF s = <<>> THEN 0
              ELSE Decimal(SubSeq(s, 1, Len(s) - 1)) * 10 + DigitVal(s[Len(s)])

AllDigits(s) == s # <<>> /\ \A i \in DOMAIN s : IsDigit(s[i])

\* strconv.ParseInt(val, 10, 64): an optional sign and decimal digits.  The
\* texts of the model have few digits, far from the 64-bit range.
ParseInt(val) ==
    LET signed == val # <<>> /\ Head(val) \in {"+", "-"}
        digits == IF signed THEN Tail(val) ELSE val
    IN  IF AllDigits(digits)
        THEN [ok |-> TRUE,
              n |-> IF signed /\ Head(val) = "-" THEN 0 - Decimal(digits)
                    ELSE Decimal(digits)]
        ELSE [ok |-> FALSE, n |-> 0]

\* Days of a month, as time.Parse validates the day.
DaysIn(year, month) ==
    IF month = 2
    THEN IF (year % 4 = 0 /\ year % 100 # 0) \/ year % 400 = 0 THEN 29 ELSE 28
    ELSE IF month \in {4, 6, 9, 11} THEN 30 ELSE 31

\* time.Parse(plistTimeLayout, val), plistTimeLayout = "2006-01-02 15:04:05 +0000":
\* four-digit year, two-digit month, day, hour, minute and second, the
\* separators and the literal text " +0000"; fields out of range are errors.
PlistZone ==   \* ` +0000`
    <<" ", "+", "0", "0", "0", "0">>

ParseTime(val) ==
    LET num(a, b) == Decimal(SubSeq(val, a, b))
        shaped ==
            /\ Len(val) = 25
            /\ \A i \in {1, 2, 3, 4, 6, 7, 9, 10, 12, 13, 15, 16, 18, 19} :
                  IsDigit(val[i])
            /\ val[5] = "-" /\ val[8] = "-" /\ val[11] = " "
            /\ val[14] = ":" /\ val[17] = ":"
            /\ SubSeq(val, 20, 25) = PlistZone
    IN  IF shaped
           /\ num(6, 7) \in 1..12
           /\ num(9, 10) \in 1..DaysIn(num(1, 4), num(6, 7))
           /\ num(12, 13) < 24 /\ num(15, 16) < 60 /\ num(18, 19) < 60
        THEN [ok |-> TRUE,
              t |-> [year |-> num(1, 4), month |-> num(6, 7), day |-> num(9, 10),
                     hour |-> num(12, 13), minute |-> num(15, 16),
                     second |-> num(18, 19)]]
        ELSE [ok |-> FALSE, t |-> <<>>]

\* Texts the parser compares with.
S_DestinationsEq ==   \* `Destinations =`
    <<"D", "e", "s", "t", "i", "n", "a", "t", "i", "o", "n", "s", " ", "=">>
S_Eq ==   \* ` = `
    <<" ", "=", " ">>
S_Semi ==   \* `;`
    <<";">>
S_Comma ==   \* `,`
    <<",">>
S_LParen ==   \* `(`
    <<"(">>
S_LBrace ==   \* `{`
    <<"{">>
S_RParenSemi ==   \* `);`
    <<")", ";">>
S_RParen ==   \* `)`
    <<")">>
S_RBraceSemi ==   \* `};`
    <<"}", ";">>
S_RBrace ==   \* `}`
    <<"}">>
S_Quote ==   \* the double quote
    <<"\"">>
K_SnapshotDates ==   \* `SnapshotDates`
    <<"S", "n", "a", "p", "s", "h", "o", "t", "D", "a", "t", "e", "s">>
K_AttemptDates ==   \* `AttemptDates`
    <<"A", "t", "t", "e", "m", "p", "t", "D", "a", "t", "e", "s">>
K_BytesUsed ==   \* `BytesUsed`
    <<"B", "y", "t", "e", "s", "U", "s", "e", "d">>
K_BytesAvailable ==   \* `BytesAvailable`
    <<"B", "y", "t", "e", "s", "A", "v", "a", "i", "l", "a", "b", "l", "e">>
K_LastKnownEncryptionState ==   \* `LastKnownEncryptionState`
    <<"L", "a", "s", "t", "K", "n", "o", "w", "n", "E", "n", "c", "r", "y",
      "p", "t", "i", "o", "n", "S", "t", "a", "t", "e">>

\* tmutil.BackupPrefs, zero value (a Go string is a character sequence).
ZeroPrefs == [AutoBackup |-> FALSE, AutoBackupSet |-> FALSE, Encryption |-> <<>>,
              BytesUsed |-> 0, BytesAvailable |-> 0,
              SnapshotDates |-> <<>>, AttemptDates |-> <<>>]

\* The locals of parseDestinationBlock before its loop; halted is TRUE once
\* a break has ended the loop.
ZeroLocals == [inDest |-> FALSE, inSnapshots |-> FALSE, inAttempts |-> FALSE,
               inArray |-> <<>>, depth |-> 0, halted |-> FALSE]

\* parseDestinationBlock: the switch on a scalar key.
ScalarKeyValue(p, key, val) ==
    CASE key = K_BytesUsed ->
            IF ParseInt(val).ok THEN [p EXCEPT !.BytesUsed = ParseInt(val).n] ELSE p
      [] key = K_BytesAvailable ->
            IF ParseInt(val).ok THEN [p EXCEPT !.BytesAvailable = ParseInt(val).n]
            ELSE p
      [] key = K_LastKnownEncryptionState -> [p EXCEPT !.Encryption = val]
      [] OTHER -> p

\* parseDestinationBlock: a line with " = " (named array opening or scalar).
AssignmentLine(st, p, trimmed) ==
    LET clean == TrimSuffix(trimmed, S_Semi)
        parts == SplitN2(clean, S_Eq)
    IN  IF Len(parts) = 2
        THEN LET key == TrimSpace(parts[1])
                 val == Trim(TrimSpace(parts[2]), Quote)
             IN  IF val = S_LParen
                 THEN [st |-> [st EXCEPT
                                 !.inArray = key,
                                 !.inSnapshots = IF key = K_SnapshotDates THEN TRUE ELSE @,
                                 !.inAttempts = IF key # K_SnapshotDates /\ key = K_AttemptDates
                                                THEN TRUE ELSE @],
                       p |-> p]
                 ELSE [st |-> st, p |-> ScalarKeyValue(p, key, val)]
        ELSE [st |-> st, p |-> p]

\* parseDestinationBlock: a line `)` or `);`.
CloseParen(st) ==
    IF st.inArray # <<>>
    THEN [st EXCEPT !.inSnapshots = IF st.inArray = K_SnapshotDates THEN FALSE ELSE @,
                    !.inAttempts = IF st.inArray # K_SnapshotDates
                                      /\ st.inArray = K_AttemptDates THEN FALSE ELSE @,
                    !.inArray = <<>>]
    ELSE [st EXCEPT !.depth = @ - 1, !.halted = (st.depth - 1 <= 0)]

\* parseDestinationBlock: a line `}` or `};`.
CloseBrace(st) == [st EXCEPT !.depth = @ - 1, !.halted = (st.depth - 1 <= 0)]

\* parseDestinationBlock: a line read while inSnapshots or inAttempts.
CollectDate(st, p, trimmed) ==
    LET clean == TrimSpace(TrimSuffix(trimmed, S_Comma))
    IN  IF HasPrefix(clean, S_Quote) /\ HasSuffix(clean, S_Quote)
        THEN LET r == ParseTime(Trim(clean, Quote))
             IN  IF r.ok
                 THEN IF st.inSnapshots
                      THEN [p EXCEPT !.SnapshotDates = Append(@, r.t)]
                      ELSE [p EXCEPT !.AttemptDates = Append(@, r.t)]
                 ELSE p
        ELSE p

\* parseDestinationBlock: one pass of the loop body over a line; st are the
\* locals and p the BackupPrefs being filled.
DestinationLine(st, p, line) ==
    LET trimmed == TrimSpace(line)
    IN  IF ~st.inDest
        THEN [st |-> IF HasPrefix(trimmed, S_DestinationsEq)
                     THEN [st EXCEPT !.inDest = TRUE] ELSE st,
              p |-> p]
        ELSE IF Contains(trimmed, S_Eq)
        THEN AssignmentLine(st, p, trimmed)
        ELSE IF trimmed = S_LParen \/ trimmed = S_LBrace
        THEN [st |-> [st EXCEPT !.depth = @ + 1], p |-> p]
        ELSE IF trimmed = S_RParenSemi \/ trimmed = S_RParen
        THEN [st |-> CloseParen(st), p |-> p]
        ELSE IF trimmed = S_RBraceSemi \/ trimmed = S_RBrace
        THEN [st |-> CloseBrace(st), p |-> p]
        ELSE IF st.inSnapshots \/ st.inAttempts
        THEN [st |-> st, p |-> CollectDate(st, p, trimmed)]
        ELSE [st |-> st, p |-> p]

(***************************************************************************)
(* The preferences text, as `defaults read` prints it, is produced line by *)
(* line; gen records where in the text the next line stands:               *)
(*   phase  "pre" before the Destinations line, "dest" inside the          *)
(*          Destinations array, "end" after its closing line               *)
(*   stack  the containers open at this point, outermost first:            *)
(*          "Destinations", "entry" (a dictionary of Destinations), the    *)
(*          key of a named array, "dict" (a dictionary inside an array)    *)
(*   want   what the Destinations array may hold next: "any", "entry"      *)
(*          (after `},`) or "close" (after the last `}`)                   *)
(*   entryNo  the number of entries of Destinations opened so far          *)
(*   nested   the number of dictionaries opened inside an array (only the  *)
(*            arrays of an entry hold dictionaries)                        *)
(*   entryMax, dateMax, nestMax  how many entries, timestamp members and   *)
(*            dictionaries inside arrays the text may hold                 *)
(*   dates    the number of timestamp members produced so far              *)
(***************************************************************************)
L_DocOpen ==   \* `{`
    <<"{">>
L_AutoBackup ==   \* `  AutoBackup = 1;`
    <<" ", " ", "A", "u", "t", "o", "B", "a", "c", "k", "u", "p", " ", "=",
      " ", "1", ";">>
L_Destinations ==   \* `  Destinations =   (`
    <<" ", " ", "D", "e", "s", "t", "i", "n", "a", "t", "i", "o", "n", "s",
      " ", "=", " ", " ", " ", "(">>
L_EntryOpen ==   \* `    {`
    <<" ", " ", " ", " ", "{">>
L_EntryNext ==   \* `  },`
    <<" ", " ", "}", ",">>
L_EntryLast ==   \* `  }`
    <<" ", " ", "}">>
L_ArrayClose ==   \* `  );`
    <<" ", " ", ")", ";">>
L_BytesUsed100 ==   \* `   BytesUsed = 100;`
    <<" ", " ", " ", "B", "y", "t", "e", "s", "U", "s", "e", "d", " ", "=",
      " ", "1", "0", "0", ";">>
L_BytesUsed200 ==   \* `   BytesUsed = 200;`
    <<" ", " ", " ", "B", "y", "t", "e", "s", "U", "s", "e", "d", " ", "=",
      " ", "2", "0", "0", ";">>
L_BytesAvailable300 ==   \* `   BytesAvailable = 300;`
    <<" ", " ", " ", "B", "y", "t", "e", "s", "A", "v", "a", "i", "l", "a",
      "b", "l", "e", " ", "=", " ", "3", "0", "0", ";">>
L_Encryption ==   \* `   LastKnownEncryptionState = NotEncrypted;`
    <<" ", " ", " ", "L", "a", "s", "t", "K", "n", "o", "w", "n", "E", "n",
      "c", "r", "y", "p", "t", "i", "o", "n", "S", "t", "a", "t", "e", " ",
      "=", " ", "N", "o", "t", "E", "n", "c", "r", "y", "p", "t", "e", "d",
      ";">>
L_SnapshotDates ==   \* `   SnapshotDates =   (`
    <<" ", " ", " ", "S", "n", "a", "p", "s", "h", "o", "t", "D", "a", "t",
      "e", "s", " ", "=", " ", " ", " ", "(">>
L_AttemptDates ==   \* `   AttemptDates =   (`
    <<" ", " ", " ", "A", "t", "t", "e", "m", "p", "t", "D", "a", "t", "e",
      "s", " ", "=", " ", " ", " ", "(">>
L_DestinationUUIDs ==   \* `   DestinationUUIDs =   (`
    <<" ", " ", " ", "D", "e", "s", "t", "i", "n", "a", "t", "i", "o", "n",
      "U", "U", "I", "D", "s", " ", "=", " ", " ", " ", "(">>
M_Date1 ==   \* `    ''2026-02-01 10:00:00 +0000'',`
    <<" ", " ", " ", " ", "\"", "2", "0", "2", "6", "-", "0", "2", "-", "0",
      "1", " ", "1", "0", ":", "0", "0", ":", "0", "0", " ", "+", "0", "0",
      "0", "0", "\"", ",">>
M_Date2 ==   \* `    ''2026-02-05 09:40:00 +0000''`
    <<" ", " ", " ", " ", "\"", "2", "0", "2", "6", "-", "0", "2", "-", "0",
      "5", " ", "0", "9", ":", "4", "0", ":", "0", "0", " ", "+", "0", "0",
      "0", "0", "\"">>
M_BadDate ==   \* `    ''2026-02-30 10:00:00 +0000'',`
    <<" ", " ", " ", " ", "\"", "2", "0", "2", "6", "-", "0", "2", "-", "3",
      "0", " ", "1", "0", ":", "0", "0", ":", "0", "0", " ", "+", "0", "0",
      "0", "0", "\"", ",">>
M_Unquoted ==   \* `    1738404000,`
    <<" ", " ", " ", " ", "1", "7", "3", "8", "4", "0", "4", "0", "0", "0",
      ",">>
V_NotEncrypted ==   \* `NotEncrypted`
    <<"N", "o", "t", "E", "n", "c", "r", "y", "p", "t", "e", "d">>

T_Date1 == [year |-> 2026, month |-> 2, day |-> 1, hour |-> 10, minute |-> 0,
            second |-> 0]
T_Date2 == [year |-> 2026, month |-> 2, day |-> 5, hour |-> 9, minute |-> 40,
            second |-> 0]

\* The lines of a destination entry and of an array, and what they hold.
EntryScalars == {L_BytesUsed100, L_BytesUsed200, L_BytesAvailable300, L_Encryption}
ArrayOpens == {[line |-> L_SnapshotDates, key |-> "SnapshotDates"],
               [line |-> L_AttemptDates, key |-> "AttemptDates"],
               [line |-> L_DestinationUUIDs, key |-> "DestinationUUIDs"]}
ArrayKeys == {o.key : o \in ArrayOpens}
Members == {M_Date1, M_Date2, M_BadDate, M_Unquoted}
\* The timestamp a member line holds, if it is a quoted timestamp.
MemberTime(line) ==
    CASE line = M_Date1 -> <<T_Date1>>
      [] line = M_Date2 -> <<T_Date2>>
      [] OTHER -> <<>>

Top(stack) == stack[Len(stack)]
Push(g, tag) == [g EXCEPT !.stack = Append(@, tag)]
Pop(g) == [g EXCEPT !.stack = SubSeq(@, 1, Len(@) - 1)]

GenInit(entryMax, dateMax, nestMax) ==
    [phase |-> "pre", stack |-> <<>>, want |-> "any", entryNo |-> 0,
     nested |-> 0, dates |-> 0,
     entryMax |-> entryMax, dateMax |-> dateMax, nestMax |-> nestMax]

\* The lines that can come next in the text, each with gen after it.
Moves(g) ==
    IF g.phase = "pre"
    THEN {[line |-> L_DocOpen, gen |-> g], [line |-> L_AutoBackup, gen |-> g],
          [line |-> L_Destinations,
           gen |-> [g EXCEPT !.phase = "dest", !.stack = <<"Destinations">>]]}
    ELSE IF g.phase # "dest" THEN {}
    ELSE IF Top(g.stack) = "Destinations"
    THEN {[line |-> L_EntryOpen,
           gen |-> [Push(g, "entry") EXCEPT !.entryNo = @ + 1]] :
             x \in {z \in {1} : g.want \in {"any", "entry"} /\ g.entryNo < g.entryMax}}
         \cup
         {[line |-> L_ArrayClose,
           gen |-> [Pop(g) EXCEPT !.phase = "end"]] :
             x \in {z \in {1} : g.want \in {"any", "close"}}}
    ELSE IF Top(g.stack) = "entry"
    THEN {[line |-> l, gen |-> g] : l \in EntryScalars}
         \cup {[line |-> o.line, gen |-> Push(g, o.key)] : o \in ArrayOpens}
         \cup {[line |-> L_EntryNext, gen |-> [Pop(g) EXCEPT !.want = "entry"]] :
                 x \in {z \in {1} : g.entryNo < g.entryMax}}
         \cup {[line |-> L_EntryLast, gen |-> [Pop(g) EXCEPT !.want = "close"]]}
    ELSE IF Top(g.stack) \in ArrayKeys
    THEN {[line |-> l, gen |-> IF MemberTime(l) # <<>>
                               THEN [g EXCEPT !.dates = @ + 1] ELSE g] :
                 l \in {m \in Members : MemberTime(m) # <<>> => g.dates < g.dateMax}}
         \cup {[line |-> L_EntryOpen,
                gen |-> [Push(g, "dict") EXCEPT !.nested = @ + 1]] :
                 x \in {z \in {1} : Len(g.stack) = 3 /\ g.nested < g.nestMax}}
         \cup {[line |-> L_ArrayClose, gen |-> Pop(g)]}
    ELSE \* a dictionary inside an array
         {[line |-> o.line, gen |-> Push(g, o.key)] : o \in ArrayOpens}
         \cup {[line |-> L_EntryNext, gen |-> Pop(g)],
               [line |-> L_EntryLast, gen |-> Pop(g)]}

\* What the first destination entry holds, by the place of each line in the
\* text: its scalars, and the timestamps of its SnapshotDates and
\* AttemptDates arrays.
ExpectedAfter(e, g, line) ==
    IF g.phase # "dest" \/ g.entryNo # 1 THEN e
    ELSE IF Top(g.stack) = "entry"
    THEN CASE line = L_BytesUsed100 -> [e EXCEPT !.BytesUsed = 100]
           [] line = L_BytesUsed200 -> [e EXCEPT !.BytesUsed = 200]
           [] line = L_BytesAvailable300 -> [e EXCEPT !.BytesAvailable = 300]
           [] line = L_Encryption -> [e EXCEPT !.Encryption = V_NotEncrypted]
           [] OTHER -> e
    ELSE IF Top(g.stack) = "SnapshotDates"
    THEN [e EXCEPT !.SnapshotDates = @ \o MemberTime(line)]
    ELSE IF Top(g.stack) = "AttemptDates"
    THEN [e EXCEPT !.AttemptDates = @ \o MemberTime(line)]
    ELSE e

(***************************************************************************)
(* Part III: tmutil/snapshot.go, the accessors of BackupPrefs              *)
(***************************************************************************)

\* time.Time{}: the zero time, January 1 of year 1, 00:00:00 UTC.
ZeroTime == [year |-> 1, month |-> 1, day |-> 1, hour |-> 0, minute |-> 0,
             second |-> 0]

\* time.Time.IsZero
IsZero(t) == t = ZeroTime

\* The fields of a time, most significant first (all times are UTC).
TimeFields(t) == <<t.year, t.month, t.day, t.hour, t.minute, t.second>>

\* time.Time.After: a is a later instant than b.
After(a, b) ==
    LET x == TimeFields(a)
        y == TimeFields(b)
    IN  \E i \in 1..6 : x[i] > y[i] /\ \A j \in 1..(i - 1) : x[j] = y[j]

\* Seconds from the start of the year 2000 to t, for t in 2000 or later.
RECURSIVE DaysBeforeMonth(_, _)
DaysBeforeMonth(year, month) ==
    IF month <= 1 THEN 0
    ELSE DaysBeforeMonth(year, month - 1) + DaysIn(year, month - 1)

RECURSIVE DaysSince2000(_)
DaysSince2000(year) ==
    IF year <= 2000 THEN 0
    ELSE DaysSince2000(year - 1) + 337 + DaysIn(year - 1, 2)

Seconds(t) ==
    ((DaysSince2000(t.year) + DaysBeforeMonth(t.year, t.month) + (t.day - 1)) * 24
        + t.hour) * 3600 + t.minute * 60 + t.second

\* time.Time.Sub, a time.Duration counted in seconds; the times of the model
\* lie within a year of each other, far from the range where Sub saturates.
Sub(a, b) == Seconds(a) - Seconds(b)

\* BackupPrefs.LastSnapshot
LastSnapshot(p) ==
    IF Len(p.SnapshotDates) = 0 THEN ZeroTime
    ELSE p.SnapshotDates[Len(p.SnapshotDates)]

\* BackupPrefs.FirstSnapshot
FirstSnapshot(p) ==
    IF Len(p.SnapshotDates) = 0 THEN ZeroTime
    ELSE p.SnapshotDates[1]

\* BackupPrefs.LastBackupDuration: the loop over AttemptDates, from its i-th
\* member on, with best as the loop has left it.
RECURSIVE BestAttempt(_, _, _, _)
BestAttempt(attempts, i, last, best) ==
    IF i > Len(attempts) THEN best
    ELSE LET a == attempts[i] IN
         BestAttempt(attempts, i + 1, last,
                     IF ~After(a, last) /\ After(a, best) THEN a ELSE best)

\* BackupPrefs.LastBackupDuration, in seconds.
LastBackupDuration(p) ==
    LET last == LastSnapshot(p) IN
    IF IsZero(last) \/ Len(p.AttemptDates) = 0 THEN 0
    ELSE LET best == BestAttempt(p.AttemptDates, 1, last, ZeroTime) IN
         IF IsZero(best) THEN 0 ELSE Sub(last, best)

\* The timestamps of the accessors' inputs.
T_Feb1_0950 == [year |-> 2026, month |-> 2, day |-> 1, hour |-> 9, minute |-> 50,
                second |-> 0]
T_Feb1_1000 == [year |-> 2026, month |-> 2, day |-> 1, hour |-> 10, minute |-> 0,
                second |-> 0]
T_Feb5_0940 == [year |-> 2026, month |-> 2, day |-> 5, hour |-> 9, minute |-> 40,
                second |-> 0]
T_Feb5_1000 == [year |-> 2026, month |-> 2, day |-> 5, hour |-> 10, minute |-> 0,
                second |-> 0]
Times == {T_Feb1_0950, T_Feb1_1000, T_Feb5_0940, T_Feb5_1000}

\* The sequences of at most n members of S.
RECURSIVE SeqsUpTo(_, _)
SeqsUpTo(S, n) ==
    IF n = 0 THEN {<<>>}
    ELSE LET shorter == SeqsUpTo(S, n - 1) IN
         shorter \cup {Append(q, x) : q \in shorter, x \in S}

\* No accessor has been called.
NoDerived == [called |-> FALSE, last |-> ZeroTime, first |-> ZeroTime,
              duration |-> 0]

DatesIdle == derived = NoDerived

(***************************************************************************)
(* Part IV: tmutil/tmutil.go, parseFields and parseProgress                *)
(***************************************************************************)

\* Texts of the status report and of its parsers.
S_ProgressEq ==   \* `Progress =`
    <<"P", "r", "o", "g", "r", "e", "s", "s", " ", "=">>
S_RunningZero ==   \* `Running = 0`
    <<"R", "u", "n", "n", "i", "n", "g", " ", "=", " ", "0">>
S_Indent ==   \* `  `
    <<" ", " ">>
K_Running ==   \* `Running`
    <<"R", "u", "n", "n", "i", "n", "g">>
K_Percent ==   \* `Percent`
    <<"P", "e", "r", "c", "e", "n", "t">>
K_BackupPhase ==   \* `BackupPhase`
    <<"B", "a", "c", "k", "u", "p", "P", "h", "a", "s", "e">>
K_TimeRemaining ==   \* `TimeRemaining`
    <<"T", "i", "m", "e", "R", "e", "m", "a", "i", "n", "i", "n", "g">>
K_AutoBackup ==   \* `AutoBackup`
    <<"A", "u", "t", "o", "B", "a", "c", "k", "u", "p">>
K_bytes ==   \* `bytes`
    <<"b", "y", "t", "e", "s">>
K_totalBytes ==   \* `totalBytes`
    <<"t", "o", "t", "a", "l", "B", "y", "t", "e", "s">>
K_files ==   \* `files`
    <<"f", "i", "l", "e", "s">>
K_totalFiles ==   \* `totalFiles`
    <<"t", "o", "t", "a", "l", "F", "i", "l", "e", "s">>
V_Hundred ==   \* `100`
    <<"1", "0", "0">>
V_One ==   \* `1`
    <<"1">>
V_Zero ==   \* `0`
    <<"0">>
V_QuotedHalf ==   \* `''0.5''`
    <<"\"", "0", ".", "5", "\"">>
V_QuotedQuarter ==   \* `''0.25''`
    <<"\"", "0", ".", "2", "5", "\"">>
V_OpenQuoteOnly ==   \* `''Copying`
    <<"\"", "C", "o", "p", "y", "i", "n", "g">>
V_QuotesInsidePair ==   \* `''''Copying''''`
    <<"\"", "\"", "C", "o", "p", "y", "i", "n", "g", "\"", "\"">>
L_StatusHeader ==   \* `Backup session status:`
    <<"B", "a", "c", "k", "u", "p", " ", "s", "e", "s", "s", "i", "o", "n",
      " ", "s", "t", "a", "t", "u", "s", ":">>
L_ProgressOpen ==   \* `  Progress =   {`
    <<" ", " ", "P", "r", "o", "g", "r", "e", "s", "s", " ", "=", " ", " ",
      " ", "{">>
L_DetailsOpen ==   \* `  Details =   {`
    <<" ", " ", "D", "e", "t", "a", "i", "l", "s", " ", "=", " ", " ", " ",
      "{">>
L_DictClose ==   \* `  };`
    <<" ", " ", "}", ";">>
L_DocClose ==   \* `}`
    <<"}">>

\* A Go map[string]string is the set of its <<key, value>> entries.
MapHas(m, k) == \E e \in m : e[1] = k
\* m[k], the empty string when k is not a key
MapGet(m, k) == IF MapHas(m, k) THEN (CHOOSE e \in m : e[1] = k)[2] ELSE <<>>
\* m[k] = v
MapPut(m, k, v) == {e \in m : e[1] # k} \cup {<<k, v>>}
MapKeys(m) == {e[1] : e \in m}

\* parseFields and parseProgress: a line that is not structural is stored
\* under its key if it splits at ` = `.
StoreAssignment(m, trimmed) ==
    LET parts == SplitN2(TrimSuffix(trimmed, S_Semi), S_Eq)
    IN  IF Len(parts) = 2
        THEN MapPut(m, TrimSpace(parts[1]), Trim(TrimSpace(parts[2]), Quote))
        ELSE m

\* parseFields before its loop.
ZeroFields == [fields |-> {}, inProgress |-> FALSE]

\* Variants of FieldsLine, one slip each.
\* The lines of the Progress block are stored like the others.
FieldsLine_ReadsBlock(st, line) ==
    LET trimmed == TrimSpace(line)
    IN  IF HasPrefix(trimmed, S_ProgressEq)
        THEN [st EXCEPT !.inProgress = TRUE]
        ELSE IF trimmed = S_LBrace \/ trimmed = S_RBrace \/ trimmed = <<>>
        THEN st
        ELSE IF st.inProgress /\ trimmed = S_RBraceSemi
        THEN [st EXCEPT !.inProgress = FALSE]
        ELSE [st EXCEPT !.fields = StoreAssignment(@, trimmed)]

\* parseFields: one pass of the loop body over a line.
FieldsLine(st, line) ==
    LET trimmed == TrimSpace(line)
    IN  IF HasPrefix(trimmed, S_ProgressEq)
        THEN [st EXCEPT !.inProgress = TRUE]
        ELSE IF st.inProgress
        THEN IF trimmed = S_RBraceSemi THEN [st EXCEPT !.inProgress = FALSE] ELSE st
        ELSE IF trimmed = S_LBrace \/ trimmed = S_RBrace \/ trimmed = <<>>
        THEN st
        ELSE [st EXCEPT !.fields = StoreAssignment(@, trimmed)]

\* parseProgress before its loop; halted is TRUE once the break has ended it.
ZeroProgress == [progress |-> {}, inProgress |-> FALSE, halted |-> FALSE]

\* Variants of ProgressLine, one slip each.
\* Inside the block, a line that is no assignment ends the block.
ProgressLine_JunkEndsBlock(st, line) ==
    LET trimmed == TrimSpace(line)
    IN  IF st.halted THEN st
        ELSE IF HasPrefix(trimmed, S_ProgressEq)
        THEN [st EXCEPT !.inProgress = TRUE]
        ELSE IF ~st.inProgress THEN st
        ELSE IF trimmed = S_RBraceSemi THEN [st EXCEPT !.halted = TRUE]
        ELSE IF trimmed = S_LBrace THEN st
        ELSE IF ~Contains(trimmed, S_Eq) THEN [st EXCEPT !.halted = TRUE]
        ELSE [st EXCEPT !.progress = StoreAssignment(@, trimmed)]

\* parseProgress: one pass of the loop body over a line.
ProgressLine(st, line) ==
    LET trimmed == TrimSpace(line)
    IN  IF st.halted THEN st
        ELSE IF HasPrefix(trimmed, S_ProgressEq)
        THEN [st EXCEPT !.inProgress = TRUE]
        ELSE IF ~st.inProgress THEN st
        ELSE IF trimmed = S_RBraceSemi THEN [st EXCEPT !.halted = TRUE]
        ELSE IF trimmed = S_LBrace THEN st
        ELSE [st EXCEPT !.progress = StoreAssignment(@, trimmed)]

\* strconv.ParseFloat(v, 64) returns no error; v is one of the decimal forms
\* of the model's texts: an optional sign, digits, at most one point.
ParseFloatOk(v) ==
    LET body == IF v # <<>> /\ Head(v) \in {"+", "-"} THEN Tail(v) ELSE v
        points == {i \in DOMAIN body : body[i] = "."}
    IN  /\ \A i \in DOMAIN body : IsDigit(body[i]) \/ body[i] = "."
        /\ Cardinality(points) <= 1
        /\ \E i \in DOMAIN body : IsDigit(body[i])

\* strconv.ParseFloat(v, 64), the value in thousandths (the texts of the
\* model have at most three decimals); 0 with an error on any other text.
ParseFloat(v) ==
    LET neg == v # <<>> /\ Head(v) = "-"
        body == IF v # <<>> /\ Head(v) \in {"+", "-"} THEN Tail(v) ELSE v
        points == {i \in DOMAIN body : body[i] = "."}
        dot == IF points = {} THEN Len(body) + 1 ELSE CHOOSE i \in points : TRUE
        whole == SubSeq(body, 1, dot - 1)
        frac == SubSeq(SubSeq(body, dot + 1, Len(body)) \o <<"0", "0", "0">>, 1, 3)
        milli == (IF whole = <<>> THEN 0 ELSE Decimal(whole)) * 1000 + Decimal(frac)
    IN  IF ParseFloatOk(v)
        THEN [ok |-> TRUE, milli |-> IF neg THEN 0 - milli ELSE milli]
        ELSE [ok |-> FALSE, milli |-> 0]

\* int64(f) of a float64 kept in thousandths: truncation towards zero.
Int64Of(milli) == IF milli >= 0 THEN milli \div 1000 ELSE 0 - ((0 - milli) \div 1000)

\* parseStatusInfo: a field whose key is not in its map keeps its zero value.
ParseStatusInfo(fields, progress) ==
    LET float(k) == IF MapHas(progress, k) THEN ParseFloat(MapGet(progress, k)).milli
                    ELSE 0
    IN  [Running |-> MapGet(fields, K_Running) = V_One,
         Phase |-> MapGet(fields, K_BackupPhase),
         Percent |-> float(K_Percent),
         TimeRemaining |-> float(K_TimeRemaining),
         BytesCopied |-> Int64Of(float(K_bytes)),
         TotalBytes |-> Int64Of(float(K_totalBytes)),
         FilesCopied |-> Int64Of(float(K_files)),
         TotalFiles |-> Int64Of(float(K_totalFiles))]

\* formatStatus: whether it hands the text to formatIdleStatus and, if not,
\* which lines of the Progress section it writes with a value read from
\* progress (`Remaining: Calculating...` holds no such value); sizeLines
\* are its `Bytes:` and `Files:` lines.
FormatStatus(containsRunningZero, fields, progress) ==
    IF containsRunningZero THEN [idle |-> TRUE, progressLines |-> {}, sizeLines |-> {}]
    ELSE [idle |-> FALSE,
          sizeLines |->
             IF progress = {} THEN {}
             ELSE {l \in {"Bytes"} :
                      MapHas(progress, K_bytes) /\ MapHas(progress, K_totalBytes)}
                  \cup
                  {l \in {"Files"} :
                      MapHas(progress, K_files) /\ MapHas(progress, K_totalFiles)},
          progressLines |->
             IF progress = {} THEN {}
             ELSE {l \in {"Completed"} :
                      MapHas(progress, K_Percent)
                      /\ ParseFloatOk(MapGet(progress, K_Percent))}
                  \cup
                  {l \in {"Remaining"} :
                      LET v == MapGet(progress, K_TimeRemaining) IN
                      /\ MapHas(progress, K_TimeRemaining)
                      /\ ParseFloatOk(v)
                      /\ Head(v) # "-" /\ \E i \in DOMAIN v : v[i] \in {"1", "2", "3", "4", "5", "6", "7", "8", "9"}}]

\* Variants of RenderBody, one slip each.
\* The test of info.Running stands before the test of done.
RenderBody_RunningBeforeDone(m) ==
    IF m.err # NoErr THEN "error"
    ELSE IF ~m.info.Running THEN "waiting"
    ELSE IF m.done THEN "complete"
    ELSE "progress"

\* MonitorModel.renderBody: which of its four texts it returns.
RenderBody(m) ==
    IF m.err # NoErr THEN "error"
    ELSE IF m.done THEN "complete"
    ELSE IF ~m.info.Running THEN "waiting"
    ELSE "progress"

\* MonitorModel.renderBody, when it returns the progress text: its `Bytes:`
\* and `Files:` lines.
RenderSizeLines(m) ==
    IF RenderBody(m) # "progress" THEN {}
    ELSE {l \in {"Bytes"} : m.info.TotalBytes > 0}
         \cup {l \in {"Files"} : m.info.TotalFiles > 0}

(***************************************************************************)
(* The status text, as `tmutil status` prints it, is produced line by      *)
(* line; sgen records where in the text the next line stands:              *)
(*   phase  "pre" before the opening `{`, "body" inside it, "end" after    *)
(*          its closing `}`                                                *)
(*   stack  the dictionaries open at this point, outermost first: "doc",   *)
(*          "Progress", "dict" (any other nested dictionary)               *)
(*   scalars, dicts   the scalar lines and nested dictionaries so far      *)
(*   progressSeen     the Progress dictionary has been opened              *)
(*   progressNested   a dictionary has been opened inside Progress         *)
(* and what the lines so far hold:                                         *)
(*   containsRunningZero   some line contains `Running = 0`                *)
(*   last   the key and the text after ` = ` of the last scalar line       *)
(*   top    the keys assigned by the scalar lines of the outer dictionary  *)
(*   topRunning   the text after ` = ` of the last Running line of the      *)
(*          outer dictionary, empty if it has none                         *)
(*   well   key and value of the scalar lines outside the Progress block   *)
(*          that read key = ''value''; for each key, as its last           *)
(*          assignment outside the Progress block has it                   *)
(***************************************************************************)
ScalarLine(key, raw) == S_Indent \o key \o S_Eq \o raw \o S_Semi

\* The scalar assignments of the texts: key and the text after ` = `.
StatusScalars ==
    {<<K_Running, V_One>>, <<K_Running, V_Zero>>,
     <<K_Percent, V_QuotedHalf>>, <<K_Percent, V_QuotedQuarter>>,
     <<K_BackupPhase, V_OpenQuoteOnly>>, <<K_BackupPhase, V_QuotesInsidePair>>,
     <<K_bytes, V_Hundred>>, <<K_totalBytes, V_Zero>>}

\* raw reads ''value'' with no quote inside value.
WellFormedQuoted(raw) ==
    /\ Len(raw) >= 2
    /\ Head(raw) = "\"" /\ raw[Len(raw)] = "\""
    /\ \A i \in 2..(Len(raw) - 1) : raw[i] # "\""

\* raw without the one pair of quotes around it, if it has a quote on both ends.
StripPair(raw) ==
    IF Len(raw) >= 2 /\ Head(raw) = "\"" /\ raw[Len(raw)] = "\""
    THEN SubSeq(raw, 2, Len(raw) - 1) ELSE raw

NoLine == [key |-> <<>>, raw |-> <<>>]

StatusGenInit(scalarMax, dictMax) ==
    [phase |-> "pre", stack |-> <<>>, scalars |-> 0, dicts |-> 0,
     progressSeen |-> FALSE, progressNested |-> FALSE,
     scalarMax |-> scalarMax, dictMax |-> dictMax,
     containsRunningZero |-> FALSE, last |-> NoLine, top |-> {}, topRunning |-> <<>>,
     well |-> {}]

InProgressBlock(g) == \E i \in DOMAIN g.stack : g.stack[i] = "Progress"

\* sgen after a scalar line of key and raw.
AfterScalar(g, key, raw) ==
    [g EXCEPT !.scalars = @ + 1,
              !.last = [key |-> key, raw |-> raw],
              !.top = IF Len(g.stack) = 1 THEN @ \cup {key} ELSE @,
              !.topRunning = IF Len(g.stack) = 1 /\ key = K_Running THEN raw ELSE @,
              !.well = IF InProgressBlock(g) THEN @
                       ELSE IF WellFormedQuoted(raw) THEN MapPut(@, key, StripPair(raw))
                       ELSE {e \in @ : e[1] # key}]

\* The lines that can come next in the status text, each with sgen after it.
StatusMoves(g) ==
    IF g.phase = "pre"
    THEN {[line |-> L_StatusHeader, gen |-> g],
          [line |-> L_DocOpen, gen |-> [g EXCEPT !.phase = "body", !.stack = <<"doc">>]]}
    ELSE IF g.phase # "body" THEN {}
    ELSE {[line |-> ScalarLine(s[1], s[2]), gen |-> AfterScalar(g, s[1], s[2])] :
             s \in {z \in StatusScalars : g.scalars < g.scalarMax}}
         \cup
         {[line |-> L_ProgressOpen,
           gen |-> [Push(g, "Progress") EXCEPT !.dicts = @ + 1, !.progressSeen = TRUE]] :
             x \in {z \in {1} : Len(g.stack) = 1 /\ ~g.progressSeen
                                 /\ g.dicts < g.dictMax}}
         \cup
         {[line |-> L_DetailsOpen,
           gen |-> [Push(g, "dict") EXCEPT
                      !.dicts = @ + 1,
                      !.progressNested = @ \/ InProgressBlock(g)]] :
             x \in {z \in {1} : g.dicts < g.dictMax}}
         \cup
         {[line |-> L_DictClose, gen |-> Pop(g)] : x \in {z \in {1} : Len(g.stack) > 1}}
         \cup
         {[line |-> L_DocClose, gen |-> [Pop(g) EXCEPT !.phase = "end"]] :
             x \in {z \in {1} : Len(g.stack) = 1}}

\* sgen after line, as to what formatStatus reads in the whole text.
Scanned(g, line) ==
    [g EXCEPT !.containsRunningZero = @ \/ Contains(line, S_RunningZero)]

StatusIdle ==
    /\ sf = ZeroFields
    /\ sp = ZeroProgress
    /\ sgen = StatusGenInit(MaxScalars, MaxDicts)

(***************************************************************************)
(* Part V: tmutil/backup.go, Status and formatIdleStatus                   *)
(*                                                                         *)
(* env holds what each subprocess answers while the command is served:     *)
(* res is "ok", "exit" (non-zero exit) or "launch" (could not be run),     *)
(* with what the answer holds as far as the report reads it.  A call is    *)
(* recorded as [cmd, res]; a section of the report as [name, source] with  *)
(* the date it shows, if any.                                              *)
(***************************************************************************)
Fails == {"exit", "launch"}

\* The combined output of a failed subprocess.
OutputOf(cmd) == <<cmd, "output">>

\* Go's nil error, as Status returns it.
NilError == [output |-> <<>>, cause |-> "nil"]

\* run: the error of a failed invocation wraps the combined output.
RunError(cmd, res) == [output |-> OutputOf(cmd), cause |-> res]

Call(cmd, res) == [cmd |-> cmd, res |-> res]
Section(name, source, date) == [name |-> name, source |-> source, date |-> date]

\* The answers of `tmutil status`: whether the text contains `Running = 0`,
\* and its AutoBackup field.
StatusAnswers ==
    {[res |-> r, idle |-> FALSE, auto |-> "absent"] : r \in Fails}
    \cup {[res |-> "ok", idle |-> i, auto |-> a] :
             i \in BOOLEAN, a \in {"absent", "1", "0"}}

\* The answers of `defaults read`: the BackupPrefs parseBackupPrefs makes of
\* the text.
ReportTimes == {T_Feb1_1000, T_Feb5_1000}

PrefsAnswers(n) ==
    {[res |-> r, prefs |-> ZeroPrefs] : r \in Fails}
    \cup {[res |-> "ok",
           prefs |-> [ZeroPrefs EXCEPT !.AutoBackupSet = a[1], !.AutoBackup = a[2],
                                       !.SnapshotDates = s]] :
             a \in {<<FALSE, FALSE>>, <<TRUE, FALSE>>, <<TRUE, TRUE>>},
             s \in SeqsUpTo(ReportTimes, n)}

\* The answers of `tmutil destinationinfo`: whether a Name is given.
DestAnswers ==
    {[res |-> r, named |-> FALSE] : r \in Fails}
    \cup {[res |-> "ok", named |-> n] : n \in BOOLEAN}

\* The answers of `tmutil latestbackup`: no path, a path whose last
\* component is not a date, or the path of a backup.
LatestAnswers ==
    {[res |-> r, path |-> "none"] : r \in Fails}
    \cup {[res |-> "ok", path |-> p] : p \in {"none", "undated", "dated"}}

\* The answers of `tmutil listbackups`: the number of paths listed.
ListAnswers ==
    {[res |-> r, paths |-> 0] : r \in Fails}
    \cup {[res |-> "ok", paths |-> n] : n \in {0, 2}}

T_Latest == T_Feb5_1000   \* the date of the path `tmutil latestbackup` prints

\* formatIdleStatus: the Auto Backup line.
AutoBackupPart(fieldAuto, pa) ==
    IF pa.res = "ok" /\ pa.prefs.AutoBackupSet
    THEN <<Section("Auto Backup", "prefs", ZeroTime)>>
    ELSE IF fieldAuto # "absent"
    THEN <<Section("Auto Backup", "status", ZeroTime)>>
    ELSE <<>>

\* formatIdleStatus: the Destination line, best effort.
DestinationPart(da) ==
    [out |-> IF da.res = "ok" /\ da.named
             THEN <<Section("Destination", "destinationinfo", ZeroTime)>> ELSE <<>>,
     calls |-> <<Call("destinationinfo", da.res)>>]

\* formatIdleStatus: the Encryption line.
EncryptionPart(pa) ==
    IF pa.res = "ok" /\ pa.prefs.Encryption # <<>>
    THEN <<Section("Encryption", "prefs", ZeroTime)>> ELSE <<>>

\* A variant of LastBackupPart that asks `tmutil latestbackup` whether or
\* not the preferences have shown the last backup.
LastBackupPart_AlwaysLatest(pa, la) ==
    LET shown == pa.res = "ok" /\ ~IsZero(LastSnapshot(pa.prefs))
        fromPrefs == IF shown
                     THEN <<Section("Last Backup", "prefs", LastSnapshot(pa.prefs))>>
                     ELSE <<>>
    IN  [out |-> fromPrefs \o
                 IF la.res = "ok" /\ la.path = "dated"
                 THEN <<Section("Last Backup", "latestbackup", T_Latest)>> ELSE <<>>,
         calls |-> <<Call("latestbackup", la.res)>>]

\* formatIdleStatus: the Last Backup section.
LastBackupPart(pa, la) ==
    IF pa.res = "ok" /\ ~IsZero(LastSnapshot(pa.prefs))
    THEN [out |-> <<Section("Last Backup", "prefs", LastSnapshot(pa.prefs))>>,
          calls |-> <<>>]
    ELSE [out |-> IF la.res = "ok" /\ la.path = "dated"
                  THEN <<Section("Last Backup", "latestbackup", T_Latest)>> ELSE <<>>,
          calls |-> <<Call("latestbackup", la.res)>>]

\* formatIdleStatus: the Backup History section.
HistoryPart(pa, li) ==
    IF pa.res = "ok" /\ Len(pa.prefs.SnapshotDates) > 0
    THEN [out |-> <<Section("Backup History", "prefs", LastSnapshot(pa.prefs))>>,
          calls |-> <<>>]
    ELSE [out |-> IF li.res = "ok" /\ li.paths > 0
                  THEN <<Section("Backup History", "listbackups", ZeroTime)>> ELSE <<>>,
          calls |-> <<Call("listbackups", li.res)>>]

\* formatIdleStatus: the Disk Usage section.
DiskUsagePart(pa) ==
    IF pa.res = "ok" /\ (pa.prefs.BytesUsed > 0 \/ pa.prefs.BytesAvailable > 0)
    THEN <<Section("Disk Usage", "prefs", ZeroTime)>> ELSE <<>>

\* formatIdleStatus: the sections it writes and the subprocesses it runs.
FormatIdleStatus(fieldAuto, e) ==
    LET dest == DestinationPart(e.dest)
        last == LastBackupPart(e.prefs, e.latest)
        hist == HistoryPart(e.prefs, e.list)
    IN  [out |-> <<Section("State", "status", ZeroTime)>>
                 \o AutoBackupPart(fieldAuto, e.prefs) \o dest.out
                 \o EncryptionPart(e.prefs) \o last.out \o hist.out
                 \o DiskUsagePart(e.prefs),
         calls |-> <<Call("defaults read", e.prefs.res)>> \o dest.calls
                   \o last.calls \o hist.calls]

\* Status: what it returns (the report's sections and the error) and the
\* subprocesses run while it is served.
Status(e) ==
    IF e.status.res # "ok"
    THEN [returned |-> TRUE, out |-> <<>>, err |-> RunError("status", e.status.res),
          calls |-> <<Call("status", e.status.res)>>]
    ELSE IF e.status.idle
    THEN LET r == FormatIdleStatus(e.status.auto, e) IN
         [returned |-> TRUE, out |-> r.out, err |-> NilError,
          calls |-> <<Call("status", "ok")>> \o r.calls]
    ELSE [returned |-> TRUE, out |-> <<Section("Backup Status", "status", ZeroTime)>>,
          err |-> NilError, calls |-> <<Call("status", "ok")>>]

\* No command has been served.
NoEnv == [status |-> [res |-> "ok", idle |-> FALSE, auto |-> "absent"],
          prefs |-> [res |-> "ok", prefs |-> ZeroPrefs],
          dest |-> [res |-> "ok", named |-> FALSE],
          latest |-> [res |-> "ok", path |-> "none"],
          list |-> [res |-> "ok", paths |-> 0]]
NoReport == [returned |-> FALSE, out |-> <<>>, err |-> NilError, calls |-> <<>>]

ReportIdle == env = NoEnv /\ rep = NoReport

(***************************************************************************)
(* Part VI: the commands of ui/command.go and their Execute functions      *)
(* (tmutil/*.go).  An argument is a string; a call is one subprocess       *)
(* started by run: the verb handed to tmutil and the arguments after it.   *)
(***************************************************************************)
A_Path ==   \* `/x`
    <<"/", "x">>
A_Date ==   \* `2026-01-01`
    <<"2", "0", "2", "6", "-", "0", "1", "-", "0", "1">>
A_BadDate ==   \* `2026-13-01`
    <<"2", "0", "2", "6", "-", "1", "3", "-", "0", "1">>
A_Slash ==   \* `/`
    <<"/">>
A_Blank == <<" ">>
A_Verbose ==   \* `-v`
    <<"-", "v">>

\* A command of Categories(): ID, Hotkey, IsMonitor and, for each entry of
\* Inputs, its Required flag.
Cmd(id, hotkey, inputs) ==
    [ID |-> id, Hotkey |-> hotkey, Inputs |-> inputs, IsMonitor |-> FALSE]

\* ui.Categories
Categories ==
    << [Title |-> "Backup", Hotkey |-> "b", Commands |->
          << Cmd("start", "s", <<>>), Cmd("stop", "t", <<>>),
             Cmd("status", "a", <<>>),
             [ID |-> "monitor", Hotkey |-> "m", Inputs |-> <<>>, IsMonitor |-> TRUE],
             Cmd("enable", "e", <<>>), Cmd("disable", "d", <<>>),
             Cmd("version", "v", <<>>) >>],
       [Title |-> "Destinations", Hotkey |-> "d", Commands |->
          << Cmd("destinationinfo", "i", <<>>),
             Cmd("setdestination", "s", <<TRUE>>),
             Cmd("removedestination", "r", <<TRUE>>),
             Cmd("setquota", "q", <<TRUE, TRUE>>) >>],
       [Title |-> "Snapshots", Hotkey |-> "s", Commands |->
          << Cmd("localsnapshot", "c", <<>>),
             Cmd("listlocalsnapshots", "l", <<FALSE>>),
             Cmd("listlocalsnapshotdates", "d", <<FALSE>>),
             Cmd("deletelocalsnapshots", "x", <<TRUE>>),
             Cmd("thinlocalsnapshots", "t", <<TRUE, FALSE, FALSE>>) >>],
       [Title |-> "Exclusions", Hotkey |-> "e", Commands |->
          << Cmd("addexclusion", "a", <<TRUE>>),
             Cmd("removeexclusion", "r", <<TRUE>>),
             Cmd("isexcluded", "e", <<TRUE>>) >>],
       [Title |-> "Browse", Hotkey |-> "r", Commands |->
          << Cmd("latestbackup", "l", <<>>), Cmd("listbackups", "b", <<>>),
             Cmd("machinedirectory", "m", <<>>),
             Cmd("compare", "c", <<FALSE, FALSE>>),
             Cmd("uniquesize", "u", <<TRUE>>),
             Cmd("verifychecksums", "v", <<TRUE>>) >>],
       [Title |-> "Restore", Hotkey |-> "t", Commands |->
          << Cmd("findfile", "f", <<TRUE, FALSE>>),
             Cmd("findbydate", "d", <<TRUE, FALSE>>),
             Cmd("browsebackup", "w", <<TRUE, FALSE>>),
             Cmd("restore", "r", <<TRUE, TRUE>>) >>],
       [Title |-> "Advanced", Hotkey |-> "a", Commands |->
          << Cmd("delete", "d", <<TRUE>>),
             Cmd("associatedisk", "a", <<TRUE, TRUE>>),
             Cmd("inheritbackup", "i", <<TRUE>>),
             Cmd("calculatedrift", "c", <<TRUE>>),
             Cmd("deleteinprogress", "p", <<TRUE>>) >>] >>

\* ui.AllCommands, as a set
AllCommands ==
    UNION {{Categories[i].Commands[j] : j \in DOMAIN Categories[i].Commands} :
              i \in DOMAIN Categories}

\* ui.FindCommand
FindCommand(id) == CHOOSE c \in AllCommands : c.ID = id

\* time.Parse("2006-01-02", val) returns no error: a four-digit year, a
\* two-digit month and day in range, the two separators and nothing else.
ParseDateOk(val) ==
    /\ Len(val) = 10
    /\ \A i \in {1, 2, 3, 4, 6, 7, 9, 10} : IsDigit(val[i])
    /\ val[5] = "-" /\ val[8] = "-"
    /\ Decimal(SubSeq(val, 6, 7)) \in 1..12
    /\ Decimal(SubSeq(val, 9, 10)) \in
          1..DaysIn(Decimal(SubSeq(val, 1, 4)), Decimal(SubSeq(val, 6, 7)))

\* What an Execute function did: it returned its own error with no
\* subprocess started (rejected), or it started the calls, in this order.
Rejected == [rejected |-> TRUE, calls |-> <<>>]
Invoke(verb, args) ==
    [rejected |-> FALSE, calls |-> <<[verb |-> verb, args |-> args]>>]

\* len(args) == 0 || args[0] == ""
NoFirst(args) == Len(args) = 0 \/ args[1] = <<>>
\* len(args) < 2 || args[0] == "" || args[1] == ""
NoFirstTwo(args) == Len(args) < 2 \/ args[1] = <<>> \/ args[2] = <<>>
\* len(args) > i && args[i] != "", i counted from 0
Given(args, i) == Len(args) > i /\ args[i + 1] # <<>>

\* tmutil.FindByDate, up to its call of listBackupPaths
FindByDate(args) ==
    IF NoFirst(args) THEN Rejected
    ELSE IF ~ParseDateOk(args[1]) THEN Rejected
    ELSE IF Given(args, 1) /\ ~ParseDateOk(args[2]) THEN Rejected
    ELSE Invoke("listbackups", <<>>)

\* tmutil.Restore
Restore(args) ==
    IF Len(args) < 2 THEN Rejected
    ELSE Invoke("restore", <<A_Verbose>> \o args)

\* tmutil.Delete
Delete(args) ==
    IF Len(args) = 0 THEN Rejected ELSE Invoke("delete", args)

\* tmutil.Compare
Compare(args) == Invoke("compare", args)

\* tmutil.ThinLocalSnapshots
ThinLocalSnapshots(args) ==
    IF NoFirst(args) THEN Rejected
    ELSE Invoke("thinlocalsnapshots",
                <<args[1]>>
                \o (IF Given(args, 1) THEN <<args[2]>> ELSE <<>>)
                \o (IF Given(args, 2) THEN <<args[3]>> ELSE <<>>))

\* The verb a function without arguments hands to run.
VerbOf(id) ==
    CASE id = "start" -> "startbackup"
      [] id = "stop" -> "stopbackup"
      [] OTHER -> id

\* Command.Execute of the command id, on args.  Of Status only the first
\* call is kept here (Part V has the rest); FindFile and BrowseBackup read
\* the file system after their test of args[0].
Execute(id, args) ==
    CASE id \in {"start", "stop", "status", "enable", "disable", "version",
                 "destinationinfo", "localsnapshot", "latestbackup",
                 "listbackups", "machinedirectory"} ->
            Invoke(VerbOf(id), <<>>)
      [] id \in {"setdestination", "addexclusion", "removeexclusion",
                 "isexcluded", "uniquesize", "verifychecksums"} ->
            IF NoFirst(args) THEN Rejected ELSE Invoke(id, args)
      [] id \in {"removedestination", "deletelocalsnapshots", "inheritbackup",
                 "calculatedrift", "deleteinprogress"} ->
            IF NoFirst(args) THEN Rejected ELSE Invoke(id, <<args[1]>>)
      [] id \in {"setquota", "associatedisk"} ->
            IF NoFirstTwo(args) THEN Rejected
            ELSE Invoke(id, <<args[1], args[2]>>)
      [] id \in {"listlocalsnapshots", "listlocalsnapshotdates"} ->
            Invoke(id, <<IF Given(args, 0) THEN args[1] ELSE A_Slash>>)
      [] id = "thinlocalsnapshots" -> ThinLocalSnapshots(args)
      [] id = "compare" -> Compare(args)
      [] id = "findfile" ->
            IF NoFirst(args) THEN Rejected ELSE Invoke("listbackups", <<>>)
      [] id = "findbydate" -> FindByDate(args)
      [] id = "browsebackup" ->
            IF NoFirst(args) THEN Rejected
            ELSE [rejected |-> FALSE, calls |-> <<>>]
      [] id = "restore" -> Restore(args)
      [] id = "delete" -> Delete(args)

\* The arguments of the runs of Execute, the texts of the fields of a form,
\* and the runs at rest.  exec.form tells a run started from the form of the
\* TUI (exec.fields, exec.sent) from a run of the command line (exec.args).
ArgValues == {<<>>, A_Path, A_Date, A_BadDate}
FieldValues == ArgValues \cup {A_Blank}
NoExec == [id |-> "none", form |-> FALSE, fields |-> <<>>, sent |-> FALSE,
           args |-> <<>>, done |-> FALSE, res |-> Rejected]

\* No line has been given to the parsers.
NoText == [n |-> 0, junk |-> 0, last |-> <<>>, block |-> "before"]
(***************************************************************************)
(* Part VII: the TUI Model of ui/model.go with the form of ui/input.go.    *)
(*                                                                         *)
(* Cursors count from 0 as in the source.  The output and err of a         *)
(* commandResultMsg are kept as the number of the run that produced them   *)
(* (0: the empty output) and the number of lines of the output; which      *)
(* command a run executes, and on which arguments, is the subject of       *)
(* Part VI.  The text of a form field is kept up to what strings.TrimSpace *)
(* makes of it: empty, blank (one space) or holding a visible character    *)
(* (written x).                                                            *)
(* Model.input is read only while the input view is shown and              *)
(* selectCommand assigns it before showing that view: it is kept as        *)
(* NoInput in the other views.  The messages of the monitor are the        *)
(* subject of Part I and are left out here; the help views are entered     *)
(* only in the runs of the views below.                                    *)
(***************************************************************************)
NoTea == [type |-> "nil"]                  \* a nil tea.Cmd
TeaQuit == [type |-> "Quit"]               \* tea.Quit
IndexPanic == [type |-> "panic"]           \* index out of range: the program dies
Blink == [type |-> "other"]                \* textinput.Blink, MonitorModel.Init

NoInput == [command |-> "none", values |-> <<>>, focus |-> 0]
NoOutput == [run |-> 0, lines |-> 1]

\* ui.NewInputModel
NewInputModel(cmd) ==
    [command |-> cmd.ID, values |-> [i \in DOMAIN cmd.Inputs |-> <<>>], focus |-> 0]

\* ui.NewModel
NewModel ==
    [view |-> "categoryView", catCursor |-> 0, cmdCursor |-> 0,
     output |-> NoOutput, scrollOffset |-> 0, height |-> 0, input |-> NoInput,
     helpCursor |-> 0, helpCmdCursor |-> 0, helpOutput |-> "none"]

MinOf(S) == CHOOSE x \in S : \A y \in S : x <= y

\* Model.executeWithArgs: the tea.Cmd that runs cmd.Execute(args) and wraps
\* what it returns in a commandResultMsg
executeWithArgs == [type |-> "exec"]

\* Model.selectCommand
selectCommand(m, cmd) ==
    IF cmd.IsMonitor
    THEN [m |-> [m EXCEPT !.view = "monitorView"], cmd |-> Blink]
    ELSE IF Len(cmd.Inputs) > 0
    THEN [m |-> [m EXCEPT !.input = NewInputModel(cmd), !.view = "inputView"],
          cmd |-> Blink]
    ELSE [m |-> [m EXCEPT !.view = "outputView"], cmd |-> executeWithArgs]

\* Model.selectCategoryItem
selectCategoryItem(m) ==
    LET helpIdx == Len(Categories)
        quitIdx == helpIdx + 1
    IN  IF m.catCursor = quitIdx THEN [m |-> m, cmd |-> TeaQuit]
        ELSE IF m.catCursor = helpIdx
        THEN [m |-> [m EXCEPT !.view = "helpCategoryView", !.helpCursor = 0],
              cmd |-> NoTea]
        ELSE [m |-> [m EXCEPT !.view = "commandView", !.cmdCursor = 0], cmd |-> NoTea]

\* Model.updateCategory
updateCategory(m, k) ==
    LET helpIdx == Len(Categories)
        quitIdx == helpIdx + 1
        count == quitIdx + 1
        hot == {i \in DOMAIN Categories : Categories[i].Hotkey = k}
    IN  CASE k = "ctrl+c" -> [m |-> m, cmd |-> TeaQuit]
          [] k \in {"up", "k"} ->
                [m |-> [m EXCEPT !.catCursor = IF @ > 0 THEN @ - 1 ELSE count - 1],
                 cmd |-> NoTea]
          [] k \in {"down", "j"} ->
                [m |-> [m EXCEPT !.catCursor = IF @ < count - 1 THEN @ + 1 ELSE 0],
                 cmd |-> NoTea]
          [] k = "enter" -> selectCategoryItem(m)
          [] k = "h" ->
                [m |-> [m EXCEPT !.view = "helpCategoryView", !.helpCursor = 0],
                 cmd |-> NoTea]
          [] k = "q" -> [m |-> m, cmd |-> TeaQuit]
          [] OTHER ->
                IF hot # {}
                THEN [m |-> [m EXCEPT !.catCursor = MinOf(hot) - 1,
                                      !.view = "commandView", !.cmdCursor = 0],
                      cmd |-> NoTea]
                ELSE [m |-> m, cmd |-> NoTea]

\* Model.updateCommand; m.categories[m.catCursor] and cmds[m.cmdCursor] are
\* index expressions.
updateCommand(m, k) ==
    IF m.catCursor >= Len(Categories) THEN [m |-> m, cmd |-> IndexPanic]
    ELSE
    LET cmds == Categories[m.catCursor + 1].Commands
        backIdx == Len(cmds)
        quitIdx == backIdx + 1
        count == quitIdx + 1
        hot == {i \in DOMAIN cmds : cmds[i].Hotkey = k}
        back == [m |-> [m EXCEPT !.view = "categoryView"], cmd |-> NoTea]
    IN  CASE k = "ctrl+c" -> [m |-> m, cmd |-> TeaQuit]
          [] k \in {"esc", "backspace"} -> back
          [] k \in {"up", "k"} ->
                [m |-> [m EXCEPT !.cmdCursor = IF @ > 0 THEN @ - 1 ELSE count - 1],
                 cmd |-> NoTea]
          [] k \in {"down", "j"} ->
                [m |-> [m EXCEPT !.cmdCursor = IF @ < count - 1 THEN @ + 1 ELSE 0],
                 cmd |-> NoTea]
          [] k = "enter" ->
                IF m.cmdCursor = quitIdx THEN [m |-> m, cmd |-> TeaQuit]
                ELSE IF m.cmdCursor = backIdx THEN back
                ELSE IF m.cmdCursor >= Len(cmds) THEN [m |-> m, cmd |-> IndexPanic]
                ELSE selectCommand(m, cmds[m.cmdCursor + 1])
          [] OTHER ->
                IF hot # {} THEN selectCommand(m, cmds[MinOf(hot)])
                ELSE IF k = "b" THEN back
                ELSE IF k = "q" THEN [m |-> m, cmd |-> TeaQuit]
                ELSE [m |-> m, cmd |-> NoTea]

\* Model.outputPageSize
outputPageSize(m) == IF m.height - 12 < 5 THEN 5 ELSE m.height - 12

\* Variants of updateOutput, one slip each.
\* down scrolls without the test against maxOff.
updateOutput_DownUnbounded(m, k) ==
    LET maxOff == IF m.output.lines - outputPageSize(m) < 0 THEN 0
                  ELSE m.output.lines - outputPageSize(m)
        scroll(n) == [m |-> [m EXCEPT !.scrollOffset = n], cmd |-> NoTea]
    IN  CASE k \in {"ctrl+c", "q"} -> [m |-> m, cmd |-> TeaQuit]
          [] k \in {"esc", "backspace", "b"} ->
                [m |-> [m EXCEPT !.view = "commandView", !.output = NoOutput,
                                 !.scrollOffset = 0],
                 cmd |-> NoTea]
          [] k \in {"up", "k"} ->
                scroll(IF m.scrollOffset > 0 THEN m.scrollOffset - 1 ELSE m.scrollOffset)
          [] k \in {"down", "j"} -> scroll(m.scrollOffset + 1)
          [] k = "pgup" ->
                scroll(IF m.scrollOffset - outputPageSize(m) < 0 THEN 0
                       ELSE m.scrollOffset - outputPageSize(m))
          [] k \in {"pgdown", " "} ->
                scroll(IF m.scrollOffset + outputPageSize(m) > maxOff THEN maxOff
                       ELSE m.scrollOffset + outputPageSize(m))
          [] OTHER -> [m |-> m, cmd |-> NoTea]

\* Model.updateOutput
updateOutput(m, k) ==
    LET maxOff == IF m.output.lines - outputPageSize(m) < 0 THEN 0
                  ELSE m.output.lines - outputPageSize(m)
        scroll(n) == [m |-> [m EXCEPT !.scrollOffset = n], cmd |-> NoTea]
    IN  CASE k \in {"ctrl+c", "q"} -> [m |-> m, cmd |-> TeaQuit]
          [] k \in {"esc", "backspace", "b"} ->
                [m |-> [m EXCEPT !.view = "commandView", !.output = NoOutput,
                                 !.scrollOffset = 0],
                 cmd |-> NoTea]
          [] k \in {"up", "k"} ->
                scroll(IF m.scrollOffset > 0 THEN m.scrollOffset - 1 ELSE m.scrollOffset)
          [] k \in {"down", "j"} ->
                scroll(IF m.scrollOffset < maxOff THEN m.scrollOffset + 1
                       ELSE m.scrollOffset)
          [] k = "pgup" ->
                scroll(IF m.scrollOffset - outputPageSize(m) < 0 THEN 0
                       ELSE m.scrollOffset - outputPageSize(m))
          [] k \in {"pgdown", " "} ->
                scroll(IF m.scrollOffset + outputPageSize(m) > maxOff THEN maxOff
                       ELSE m.scrollOffset + outputPageSize(m))
          [] OTHER -> [m |-> m, cmd |-> NoTea]

\* Model.updateMonitor on a key: the keys it does not take go to
\* MonitorModel.Update, which leaves the Model's own fields alone.
updateMonitor(m, k) ==
    CASE k \in {"esc", "backspace", "b"} ->
            [m |-> [m EXCEPT !.view = "commandView"], cmd |-> NoTea]
      [] k \in {"q", "ctrl+c"} -> [m |-> m, cmd |-> TeaQuit]
      [] OTHER -> [m |-> m, cmd |-> NoTea]

\* Variants of submit, one slip each.
\* The Required fields are not tested.
submit_NoRequiredCheck(in) ==
    [type |-> "submit", command |-> in.command,
     args |-> [i \in DOMAIN in.values |-> TrimSpace(in.values[i])]]

\* InputModel.submit
submit(in) ==
    LET inputs == FindCommand(in.command).Inputs
    IN  IF \E i \in DOMAIN inputs : inputs[i] /\ TrimSpace(in.values[i]) = <<>>
        THEN NoTea
        ELSE [type |-> "submit", command |-> in.command,
              args |-> [i \in DOMAIN in.values |-> TrimSpace(in.values[i])]]

\* textinput.Model.Update on a key that InputModel.Update does not take.
TypeKey(value, k) ==
    IF k = " " THEN (IF value = <<>> THEN <<" ">> ELSE value)
    ELSE IF k \in {"b", "q", "d", "r", "c", "m", "x"} THEN <<"x">>
    ELSE value

\* InputModel.Update on a key (Model.updateInput hands it every key)
updateInput(m, k) ==
    LET in == m.input
        n == Len(in.values)
        focused(f) == [m |-> [m EXCEPT !.input.focus = f], cmd |-> NoTea]
    IN  CASE k = "ctrl+c" -> [m |-> m, cmd |-> TeaQuit]
          [] k = "esc" -> [m |-> m, cmd |-> [type |-> "cancel"]]
          [] k \in {"tab", "down"} -> focused((in.focus + 1) % n)
          [] k \in {"shift+tab", "up"} -> focused((in.focus - 1 + n) % n)
          [] k = "enter" ->
                IF in.focus < n - 1 THEN focused((in.focus + 1) % n)
                ELSE [m |-> m, cmd |-> submit(in)]
          [] OTHER ->
                [m |-> [m EXCEPT !.input.values[in.focus + 1] = TypeKey(@, k)],
                 cmd |-> NoTea]

\* Model.updateHelpCategory
updateHelpCategory(m, k) ==
    LET backIdx == Len(Categories)
        quitIdx == backIdx + 1
        count == quitIdx + 1
        hot == {i \in DOMAIN Categories : Categories[i].Hotkey = k}
        back == [m |-> [m EXCEPT !.view = "categoryView"], cmd |-> NoTea]
    IN  CASE k = "ctrl+c" -> [m |-> m, cmd |-> TeaQuit]
          [] k \in {"esc", "backspace"} -> back
          [] k \in {"up", "k"} ->
                [m |-> [m EXCEPT !.helpCursor = IF @ > 0 THEN @ - 1 ELSE count - 1],
                 cmd |-> NoTea]
          [] k \in {"down", "j"} ->
                [m |-> [m EXCEPT !.helpCursor = IF @ < count - 1 THEN @ + 1 ELSE 0],
                 cmd |-> NoTea]
          [] k = "enter" ->
                IF m.helpCursor = quitIdx THEN [m |-> m, cmd |-> TeaQuit]
                ELSE IF m.helpCursor = backIdx THEN back
                ELSE [m |-> [m EXCEPT !.view = "helpCommandView", !.helpCmdCursor = 0],
                      cmd |-> NoTea]
          [] k = "b" -> back
          [] k = "q" -> [m |-> m, cmd |-> TeaQuit]
          [] OTHER ->
                IF hot # {}
                THEN [m |-> [m EXCEPT !.helpCursor = MinOf(hot) - 1,
                                      !.view = "helpCommandView", !.helpCmdCursor = 0],
                      cmd |-> NoTea]
                ELSE [m |-> m, cmd |-> NoTea]

\* Model.updateHelpCommand; cats[m.helpCursor] and cmds[m.helpCmdCursor] are
\* index expressions.  helpOutput is kept as the ID of the command that
\* BuildCommandHelp describes.
updateHelpCommand(m, k) ==
    IF m.helpCursor >= Len(Categories) THEN [m |-> m, cmd |-> IndexPanic]
    ELSE
    LET cmds == Categories[m.helpCursor + 1].Commands
        backIdx == Len(cmds)
        quitIdx == backIdx + 1
        count == quitIdx + 1
        hot == {i \in DOMAIN cmds : cmds[i].Hotkey = k}
        back == [m |-> [m EXCEPT !.view = "helpCategoryView"], cmd |-> NoTea]
        detail(i) == [m |-> [m EXCEPT !.helpOutput = cmds[i].ID,
                                      !.view = "helpDetailView"],
                      cmd |-> NoTea]
    IN  CASE k = "ctrl+c" -> [m |-> m, cmd |-> TeaQuit]
          [] k \in {"esc", "backspace"} -> back
          [] k \in {"up", "k"} ->
                [m |-> [m EXCEPT !.helpCmdCursor = IF @ > 0 THEN @ - 1 ELSE count - 1],
                 cmd |-> NoTea]
          [] k \in {"down", "j"} ->
                [m |-> [m EXCEPT !.helpCmdCursor = IF @ < count - 1 THEN @ + 1 ELSE 0],
                 cmd |-> NoTea]
          [] k = "enter" ->
                IF m.helpCmdCursor = quitIdx THEN [m |-> m, cmd |-> TeaQuit]
                ELSE IF m.helpCmdCursor = backIdx THEN back
                ELSE IF m.helpCmdCursor >= Len(cmds) THEN [m |-> m, cmd |-> IndexPanic]
                ELSE detail(m.helpCmdCursor + 1)
          [] k = "b" -> back
          [] k = "q" -> [m |-> m, cmd |-> TeaQuit]
          [] OTHER ->
                IF hot # {} THEN detail(MinOf(hot))
                ELSE [m |-> m, cmd |-> NoTea]

\* Model.updateHelpDetail
updateHelpDetail(m, k) ==
    CASE k = "ctrl+c" -> [m |-> m, cmd |-> TeaQuit]
      [] k \in {"esc", "backspace", "b"} ->
            [m |-> [m EXCEPT !.view = "helpCommandView"], cmd |-> NoTea]
      [] k = "q" -> [m |-> m, cmd |-> TeaQuit]
      [] OTHER -> [m |-> m, cmd |-> NoTea]

\* Model.Update, case tea.KeyMsg
UpdateKey(m, k) ==
    CASE m.view = "categoryView" -> updateCategory(m, k)
      [] m.view = "commandView" -> updateCommand(m, k)
      [] m.view = "outputView" -> updateOutput(m, k)
      [] m.view = "monitorView" -> updateMonitor(m, k)
      [] m.view = "inputView" -> updateInput(m, k)
      [] m.view = "helpCategoryView" -> updateHelpCategory(m, k)
      [] m.view = "helpCommandView" -> updateHelpCommand(m, k)
      [] m.view = "helpDetailView" -> updateHelpDetail(m, k)

\* Model.Update, cases commandResultMsg, inputSubmitMsg and inputCancelMsg;
\* lines is the number of lines of msg.output.
UpdateMsg(m, msg, lines) ==
    CASE msg.type = "commandResultMsg" ->
            [m |-> [m EXCEPT !.output = [run |-> msg.id, lines |-> lines],
                             !.scrollOffset = 0, !.view = "outputView"],
             cmd |-> NoTea]
      [] msg.type = "inputSubmitMsg" ->
            [m |-> [m EXCEPT !.view = "outputView"],
             cmd |-> executeWithArgs]
      [] msg.type = "inputCancelMsg" ->
            [m |-> [m EXCEPT !.view = "commandView"], cmd |-> NoTea]

\* Model.renderOutput: the bounds of the slice lines[scrollOffset:end] it
\* takes when the output has more lines than a page, and whether it takes
\* one.
renderOutput(m) ==
    LET pageSize == outputPageSize(m)
        end == IF m.scrollOffset + pageSize > m.output.lines THEN m.output.lines
               ELSE m.scrollOffset + pageSize
    IN  [sliced |-> ~(m.output.lines <= pageSize), low |-> m.scrollOffset, high |-> end]

\* Model.View indexes m.categories[m.catCursor] when it renders the command
\* submenu (renderCommand).
RenderPanics(m) == m.view = "commandView" /\ m.catCursor >= Len(Categories)

(***************************************************************************)
(* The runtime of the TUI: nav.m is the Model; nav.flight holds what the   *)
(* returned commands have not delivered yet: a command being executed      *)
(* (its commandResultMsg), an inputSubmitMsg or an inputCancelMsg, each    *)
(* with the number of the tea.Cmd that sends it; nav.issued counts those   *)
(* tea.Cmds and nav.launched is the number of the last executeWithArgs.    *)
(***************************************************************************)
NoNav == [m |-> NewModel, quit |-> FALSE, panic |-> FALSE, flight |-> {},
          issued |-> 0, launched |-> 0]

\* The message a returned command will deliver, as the id-th tea.Cmd.
Sends(cmd, id) ==
    CASE cmd.type = "exec" -> {[id |-> id, type |-> "commandResultMsg"]}
      [] cmd.type = "submit" -> {[id |-> id, type |-> "inputSubmitMsg"]}
      [] cmd.type = "cancel" -> {[id |-> id, type |-> "inputCancelMsg"]}
      [] OTHER -> {}

\* The runtime after Update has returned r: the new Model is rendered and
\* the returned command is started.
AfterUpdate(n, r, flight) ==
    LET m1 == IF r.m.view = "inputView" THEN r.m ELSE [r.m EXCEPT !.input = NoInput]
        sends == Sends(r.cmd, n.issued + 1)
    IN  [m |-> m1,
         quit |-> r.cmd = TeaQuit,
         panic |-> r.cmd = IndexPanic \/ RenderPanics(r.m),
         flight |-> flight \cup sends,
         issued |-> IF sends = {} THEN n.issued ELSE n.issued + 1,
         launched |-> IF r.cmd.type = "exec" THEN n.issued + 1 ELSE n.launched]

\* The runtime after the key k.
AfterKey(n, k) == AfterUpdate(n, UpdateKey(n.m, k), n.flight)

\* The runtime after the message msg of flight has been delivered.
AfterMsg(n, msg, lines) ==
    AfterUpdate(n, UpdateMsg(n.m, msg, lines), n.flight \ {msg})

NavKeys == {"ctrl+c", "esc", "up", "down", "enter", "b", "q", "d", "r", "c"}
OutputLines == {6}

\* The keys of the runs of the views.
ViewKeys == {"esc", "enter", "up", "h", "b", "d", "m", "r"}

\* The keys of the runs of the form.
InputKeys == {"enter", "esc", "up", "down", "tab", "shift+tab", " ", "x"}

\* The keys, output lengths and window heights of the runs of the output view.
ScrollKeys == {"enter", "up", "down", "pgup", "pgdown", "b"}
ScrollLines == {1, 7, 12}
ScrollHeights == {17, 20}

(***************************************************************************)
(* Part VIII: tmutil/tmutil.go, FormatBytesInt64, formatBytes and          *)
(* FormatDuration                                                          *)
(*                                                                         *)
(* A byte count is the sequence of its groups of three decimal digits, the *)
(* most significant first and not 0 unless the count is 0 itself: 1500000  *)
(* is <<1, 500, 0>>.  float64(n) is n itself for the counts below 2^53; a  *)
(* formatted count is kept as the verb, the count, the power of 1000 it is *)
(* divided by and the unit it is printed with, and not as the digits       *)
(* Sprintf makes of the quotient.                                          *)
(***************************************************************************)
Limbs == {0, 1, 500, 999}

RECURSIVE Zeros(_)
Zeros(k) == IF k = 0 THEN <<>> ELSE <<0>> \o Zeros(k - 1)
\* 1e3, 1e6, 1e9, 1e12: the k-th power of 1000
Pow1000(k) == <<1>> \o Zeros(k)

\* a >= b, of two counts
RECURSIVE LexGeq(_, _)
LexGeq(a, b) ==
    IF a = <<>> THEN TRUE
    ELSE IF Head(a) # Head(b) THEN Head(a) > Head(b)
    ELSE LexGeq(Tail(a), Tail(b))
Geq(a, b) == Len(a) > Len(b) \/ (Len(a) = Len(b) /\ LexGeq(a, b))

\* The decimal digits of a number below 1000, and the same in three digits.
DigitChar(v) == DigitChars[v + 1]
Digits3(n) == <<DigitChar(n \div 100), DigitChar((n \div 10) % 10), DigitChar(n % 10)>>
Digits(n) ==
    IF n >= 100 THEN Digits3(n)
    ELSE IF n >= 10 THEN <<DigitChar(n \div 10), DigitChar(n % 10)>>
    ELSE <<DigitChar(n)>>

\* The text of a count, as tmutil prints it and as %d does.
RECURSIVE DigitsOfRest(_)
DigitsOfRest(n) == IF n = <<>> THEN <<>> ELSE Digits3(Head(n)) \o DigitsOfRest(Tail(n))
FormatInt(n) == Digits(Head(n)) \o DigitsOfRest(Tail(n))

\* strconv.ParseFloat of a text of digits: the count it denotes.
RECURSIVE GroupsOf(_)
GroupsOf(ds) ==
    IF Len(ds) <= 3 THEN <<Decimal(ds)>>
    ELSE GroupsOf(SubSeq(ds, 1, Len(ds) - 3))
            \o <<Decimal(SubSeq(ds, Len(ds) - 2, Len(ds)))>>
RECURSIVE DropZeroGroups(_)
DropZeroGroups(n) ==
    IF Len(n) > 1 /\ Head(n) = 0 THEN DropZeroGroups(Tail(n)) ELSE n
ParseCount(ds) == DropZeroGroups(GroupsOf(ds))

Formatted(verb, n, pow, unit) == [verb |-> verb, n |-> n, pow |-> pow, unit |-> unit]

\* Variants of FormatBytesInt64, one slip each.
\* The thresholds are compared with > instead of >=.
FormatBytesInt64_Strict(n) ==
    CASE Geq(n, Pow1000(4)) /\ n # Pow1000(4) -> Formatted("%.1f", n, 4, "TB")
      [] Geq(n, Pow1000(3)) /\ n # Pow1000(3) -> Formatted("%.1f", n, 3, "GB")
      [] Geq(n, Pow1000(2)) /\ n # Pow1000(2) -> Formatted("%.1f", n, 2, "MB")
      [] Geq(n, Pow1000(1)) /\ n # Pow1000(1) -> Formatted("%.1f", n, 1, "KB")
      [] OTHER -> Formatted("%d", n, 0, "B")

\* tmutil.FormatBytesInt64
FormatBytesInt64(n) ==
    CASE Geq(n, Pow1000(4)) -> Formatted("%.1f", n, 4, "TB")
      [] Geq(n, Pow1000(3)) -> Formatted("%.1f", n, 3, "GB")
      [] Geq(n, Pow1000(2)) -> Formatted("%.1f", n, 2, "MB")
      [] Geq(n, Pow1000(1)) -> Formatted("%.1f", n, 1, "KB")
      [] OTHER -> Formatted("%d", n, 0, "B")

\* tmutil.formatBytes; the texts of the model are strings of digits, or no
\* numbers at all, which it returns as they are.
formatBytes(str) ==
    IF ~AllDigits(str) THEN [verb |-> "%s", n |-> <<>>, pow |-> 0, unit |-> ""]
    ELSE LET n == ParseCount(str)
         IN  CASE Geq(n, Pow1000(4)) -> Formatted("%.1f", n, 4, "TB")
               [] Geq(n, Pow1000(3)) -> Formatted("%.1f", n, 3, "GB")
               [] Geq(n, Pow1000(2)) -> Formatted("%.1f", n, 2, "MB")
               [] Geq(n, Pow1000(1)) -> Formatted("%.1f", n, 1, "KB")
               [] OTHER -> Formatted("%.0f", n, 0, "B")

\* What Sprintf prints: %d and %.0f print a whole number the same way.
Printed(f) == IF f.verb \in {"%d", "%.0f"} THEN [f EXCEPT !.verb = "integer"] ELSE f

(***************************************************************************)
(* A time.Duration is kept as its whole seconds and the nanoseconds left   *)
(* over; d.Hours(), d.Minutes() and d.Seconds() are float64, and converted *)
(* back with int() they are the whole hours, minutes and seconds of d for  *)
(* the durations of the model (the sum of the whole part and the fraction  *)
(* is not rounded up to the next whole number below some 180 days).  The   *)
(* string FormatDuration returns is kept as the parts it joins with `, `.  *)
(***************************************************************************)
Part(n, word) == [n |-> n, word |-> word]
\* `1 day` or fmt.Sprintf("%d days", n)
Unit(n, one, many) == IF n = 1 THEN Part(1, one) ELSE Part(n, many)

\* Variants of FormatDuration, one slip each.
\* The hours are not reduced modulo 24.
FormatDuration_HoursNotReduced(d) ==
    IF d.sec < 1 THEN <<Part(0, "seconds")>>
    ELSE LET days == (d.sec \div 3600) \div 24
             hours == d.sec \div 3600
             minutes == (d.sec \div 60) % 60
             seconds == d.sec % 60
         IN  (IF days > 0 THEN <<Unit(days, "day", "days")>> ELSE <<>>)
             \o (IF hours > 0 THEN <<Unit(hours, "hour", "hours")>> ELSE <<>>)
             \o (IF minutes > 0 THEN <<Unit(minutes, "minute", "minutes")>> ELSE <<>>)
             \o (IF seconds > 0 THEN <<Unit(seconds, "second", "seconds")>> ELSE <<>>)

\* tmutil.FormatDuration
FormatDuration(d) ==
    IF d.sec < 1 THEN <<Part(0, "seconds")>>
    ELSE LET days == (d.sec \div 3600) \div 24
             hours == (d.sec \div 3600) % 24
             minutes == (d.sec \div 60) % 60
             seconds == d.sec % 60
         IN  (IF days > 0 THEN <<Unit(days, "day", "days")>> ELSE <<>>)
             \o (IF hours > 0 THEN <<Unit(hours, "hour", "hours")>> ELSE <<>>)
             \o (IF minutes > 0 THEN <<Unit(minutes, "minute", "minutes")>> ELSE <<>>)
             \o (IF seconds > 0 THEN <<Unit(seconds, "second", "seconds")>> ELSE <<>>)

(***************************************************************************)
(* Part IX: ui/monitor.go, renderProgressBar                               *)
(*                                                                         *)
(* A float64 is a number kept in thousandths, an infinity or NaN.  Every   *)
(* comparison with NaN is false.  The conversion int(f) of a float64 that  *)
(* int cannot represent gives a value that depends on the build: for NaN   *)
(* it is 0 or the least int64, written LeastInt and read for its sign      *)
(* only.  The bar is kept as its two counts of cells.                      *)
(***************************************************************************)
progressBarWidth == 40

Num(milli) == [kind |-> "num", milli |-> milli]
NaN == [kind |-> "NaN", milli |-> 0]
PosInf == [kind |-> "+Inf", milli |-> 0]
NegInf == [kind |-> "-Inf", milli |-> 0]

LeastInt == -1

\* f < c and f > c for a float64 f and a whole number c
FloatLess(f, c) ==
    CASE f.kind = "num" -> f.milli < c * 1000
      [] f.kind = "-Inf" -> TRUE
      [] OTHER -> FALSE
FloatGreater(f, c) ==
    CASE f.kind = "num" -> f.milli > c * 1000
      [] f.kind = "+Inf" -> TRUE
      [] OTHER -> FALSE

\* int(float64(w) * f): the values the builds give.
IntOfProduct(w, f) ==
    CASE f.kind = "num" ->
            {IF f.milli >= 0 THEN (w * f.milli) \div 1000
             ELSE 0 - ((w * (0 - f.milli)) \div 1000)}
      [] OTHER -> {0, LeastInt}

\* strings.Repeat panics on a negative count.
RepeatPanics(count) == count < 0

NoBar == [panic |-> FALSE, filled |-> 0, empty |-> 0]

\* renderProgressBar: the bars it can draw, or the panic of strings.Repeat.
renderProgressBar(percent) ==
    LET p0 == IF FloatLess(percent, 0) THEN Num(0) ELSE percent
        p1 == IF FloatGreater(p0, 1) THEN Num(1000) ELSE p0
    IN  {IF RepeatPanics(filled) \/ RepeatPanics(progressBarWidth - filled)
         THEN [NoBar EXCEPT !.panic = TRUE]
         ELSE [panic |-> FALSE, filled |-> filled, empty |-> progressBarWidth - filled] :
            filled \in IntOfProduct(progressBarWidth, p1)}

\* The percents of the runs.
Percents ==
    {Num(x) : x \in (0 - MaxOver)..(1000 + MaxOver)} \cup {NaN, PosInf, NegInf}

\* The formatters at rest, and their arguments: fmt.n is a byte count and
\* fmt.str its text, fmt.d a duration, fmt.percent a percent.
NoFmt == [kind |-> "none", n |-> <<0>>, str |-> <<"0">>, d |-> [sec |-> 0, nsec |-> 0],
          done |-> FALSE, int64 |-> Formatted("%d", <<0>>, 0, "B"),
          text |-> Formatted("%d", <<0>>, 0, "B"), parts |-> <<>>,
          percent |-> Num(0), bar |-> NoBar]
Counts ==
    {n \in SeqsUpTo(Limbs, MaxLimbs) : Len(n) >= 1 /\ (Len(n) > 1 => Head(n) # 0)}
Durations ==
    {[sec |-> ((days * 24 + h) * 60 + m) * 60 + sec, nsec |-> ns] :
        days \in 0..MaxDays, h \in {0, 1, 2, 23}, m \in {0, 1, 59},
        sec \in {0, 1, 2, 59}, ns \in {0, 999999999}}
    \cup {[sec |-> -1, nsec |-> 0]}

\* The tools of Parts VI to VIII at rest, in the runs of the other parts.
ToolIdle == nav = NoNav /\ exec = NoExec /\ fmt = NoFmt /\ text = NoText

\* The user interface at rest, in the runs of the parser.
UiIdle ==
    /\ view = "none"
    /\ monitor = NewMonitorModel
    /\ width = 0 /\ height = 0
    /\ pending = {}
    /\ quit = FALSE
    /\ nextId = 0 /\ inst = 0 /\ issued = 0
    /\ applied = <<>>

\* The parser at rest, in the runs of the user interface.
PrefsIdle ==
    /\ ps = ZeroLocals
    /\ prefs = ZeroPrefs
    /\ gen = GenInit(MaxEntries, MaxDates, 0)
    /\ expected = ZeroPrefs

\* parseBackupPrefs calls parseDestinationBlock on a fresh BackupPrefs; the
\* text holds no dictionary inside an array.
InitPrefs ==
    /\ mode = "prefs"
    /\ UiIdle
    /\ PrefsIdle
    /\ DatesIdle /\ StatusIdle /\ ReportIdle /\ ToolIdle

\* The same, on a text of one entry that may hold dictionaries inside the
\* arrays of the entry.
InitPrefsNested ==
    /\ mode = "prefs"
    /\ UiIdle
    /\ ps = ZeroLocals
    /\ prefs = ZeroPrefs
    /\ gen = GenInit(1, MaxNestedDates, MaxNested)
    /\ expected = ZeroPrefs
    /\ DatesIdle /\ StatusIdle /\ ReportIdle /\ ToolIdle

\* One pass of the loop of parseDestinationBlock, on the next line of the text.
PrefsLine ==
    /\ mode = "prefs" /\ ~ps.halted
    /\ \E mv \in Moves(gen) :
          LET r == DestinationLine(ps, prefs, mv.line) IN
             /\ ps' = r.st
             /\ prefs' = r.p
             /\ gen' = mv.gen
             /\ expected' = ExpectedAfter(expected, gen, mv.line)
    /\ UNCHANGED <<uiVars, statusVars, reportVars, toolVars>>

NextPrefs == PrefsLine

SpecPrefs == InitPrefs /\ [][NextPrefs]_vars

SpecPrefsNested == InitPrefsNested /\ [][NextPrefs]_vars

\* main.go runMonitor: tea.NewProgram(NewMonitorModel).Run() calls Init.
InitCli ==
    /\ mode = "cli"
    /\ view = "none"
    /\ monitor = NewMonitorModel
    /\ width = 0 /\ height = 0
    /\ pending = {Item(1, "poll", 1, 1, NoErr, FALSE)}
    /\ quit = FALSE
    /\ nextId = 1
    /\ inst = 1
    /\ issued = 1
    /\ applied = <<>>
    /\ PrefsIdle
    /\ DatesIdle /\ StatusIdle /\ ReportIdle /\ ToolIdle

\* main.go runTUI: NewModel, Model.Init returns nil.
InitTui ==
    /\ mode = "tui"
    /\ view = "categoryView"
    /\ monitor = NewMonitorModel
    /\ width = 0 /\ height = 0
    /\ pending = {}
    /\ quit = FALSE
    /\ nextId = 0
    /\ inst = 0
    /\ issued = 0
    /\ applied = <<>>
    /\ PrefsIdle
    /\ DatesIdle /\ StatusIdle /\ ReportIdle /\ ToolIdle

\* pollStatus returns: GetStatus succeeded (running or not) or failed.
PollReturns ==
    /\ mode \in {"cli", "tui"} /\ ~quit
    /\ \E p \in pending : \E e \in {NoErr} \cup Errs : \E r \in BOOLEAN :
          /\ p.kind = "poll"
          /\ e # NoErr => r = FALSE          \* GetStatus returns StatusInfo{}, err
          /\ pending' = (pending \ {p}) \cup
                          {Item(p.id, "update", p.owner, p.sample, e, r)}
    /\ UNCHANGED <<mode, view, monitor, width, height, quit, nextId, inst,
                   issued, applied>>
    /\ UNCHANGED <<prefsVars, statusVars, reportVars, toolVars>>

\* Standalone: the runtime hands a tick or a status update to MonitorModel.Update.
CliDeliver ==
    /\ mode = "cli" /\ ~quit
    /\ \E p \in pending :
          /\ p.kind \in {"tick", "update"}
          /\ LET r == MonitorUpdate(monitor, MsgOf(p)) IN
                /\ Launched(r.cmd) <= MaxCmds
                /\ monitor' = r.m
                /\ pending' = Launch(pending \ {p}, r.cmd, nextId + 1, inst, issued + 1)
                /\ nextId' = Launched(r.cmd)
                /\ issued' = Issued(r.cmd)
                /\ applied' = Applied(p)
    /\ UNCHANGED <<mode, view, width, height, quit, inst>>
    /\ UNCHANGED <<prefsVars, statusVars, reportVars, toolVars>>

\* Standalone: a key press.
CliKey ==
    /\ mode = "cli" /\ ~quit
    /\ \E k \in Keys :
          LET r == MonitorUpdate(monitor, [type |-> "KeyMsg", key |-> k]) IN
             /\ monitor' = r.m
             /\ quit' = (r.cmd = "Quit")
    /\ UNCHANGED <<mode, view, width, height, pending, nextId, inst, issued, applied>>
    /\ UNCHANGED <<prefsVars, statusVars, reportVars, toolVars>>

\* Standalone: the terminal reports its size.
CliWindowSize ==
    /\ mode = "cli" /\ ~quit
    /\ \E s \in WinSizes :
          LET r == MonitorUpdate(monitor,
                      [type |-> "WindowSizeMsg", Width |-> s[1], Height |-> s[2]]) IN
             monitor' = r.m
    /\ UNCHANGED <<mode, view, width, height, pending, quit, nextId, inst,
                   issued, applied>>
    /\ UNCHANGED <<prefsVars, statusVars, reportVars, toolVars>>

\* Model.updateCategory, for the keys of the model: the new view and command.
UpdateCategory(k) ==
    CASE k \in {"ctrl+c", "q"} -> [view |-> view, cmd |-> "Quit"]
      [] k = "b" -> [view |-> "commandView", cmd |-> NoCmd]   \* category hotkey
      [] OTHER -> [view |-> view, cmd |-> NoCmd]

\* Model.updateCommand in the Backup category, for the keys of the model;
\* select is TRUE when the key runs selectCommand on the Monitor command.
UpdateCommand(k) ==
    CASE k = "ctrl+c" -> [view |-> view, cmd |-> "Quit", select |-> FALSE]
      [] k \in {"esc", "backspace"} ->
            [view |-> "categoryView", cmd |-> NoCmd, select |-> FALSE]
      [] k = "m" ->                       \* command hotkey: selectCommand(cmd)
            [view |-> "monitorView", cmd |-> MonitorInit, select |-> TRUE]
      [] k = "b" -> [view |-> "categoryView", cmd |-> NoCmd, select |-> FALSE]
      [] k = "q" -> [view |-> view, cmd |-> "Quit", select |-> FALSE]
      [] OTHER -> [view |-> view, cmd |-> NoCmd, select |-> FALSE]

\* Model.updateMonitor: the keys that leave the view or quit are taken
\* here; every other message goes to the embedded MonitorModel.Update.
UpdateMonitor(msg) ==
    IF msg.type = "KeyMsg" /\ msg.key \in {"esc", "backspace", "b"}
    THEN [view |-> "commandView", m |-> monitor, cmd |-> NoCmd]
    ELSE IF msg.type = "KeyMsg" /\ msg.key \in {"q", "ctrl+c"}
    THEN [view |-> view, m |-> monitor, cmd |-> "Quit"]
    ELSE LET r == MonitorUpdate(monitor, msg) IN
            [view |-> view, m |-> r.m, cmd |-> r.cmd]

\* TUI: a key press, routed by Model.Update on the current view.
TuiKeyCategory ==
    /\ mode = "tui" /\ ~quit /\ view = "categoryView"
    /\ \E k \in Keys :
          LET r == UpdateCategory(k) IN
             /\ view' = r.view
             /\ quit' = (r.cmd = "Quit")
    /\ UNCHANGED <<mode, monitor, width, height, pending, nextId, inst, issued,
                   applied>>
    /\ UNCHANGED <<prefsVars, statusVars, reportVars, toolVars>>

TuiKeyCommand ==
    /\ mode = "tui" /\ ~quit /\ view = "commandView"
    /\ \E k \in Keys :
          LET r == UpdateCommand(k) IN
             /\ view' = r.view
             /\ quit' = (r.cmd = "Quit")
             /\ IF r.select
                THEN \* selectCommand: a new MonitorModel, whose Init is returned
                     /\ inst < MaxInst /\ nextId < MaxCmds
                     /\ monitor' = NewMonitorModel
                     /\ inst' = inst + 1
                     /\ pending' = Launch(pending, r.cmd, nextId + 1, inst + 1, 1)
                     /\ nextId' = nextId + 1
                     /\ issued' = 1
                     /\ applied' = <<>>
                ELSE UNCHANGED <<monitor, pending, nextId, inst, issued, applied>>
    /\ UNCHANGED <<mode, width, height>>
    /\ UNCHANGED <<prefsVars, statusVars, reportVars, toolVars>>

TuiKeyMonitor ==
    /\ mode = "tui" /\ ~quit /\ view = "monitorView"
    /\ \E k \in Keys :
          LET r == UpdateMonitor([type |-> "KeyMsg", key |-> k]) IN
             /\ view' = r.view
             /\ monitor' = r.m
             /\ quit' = (r.cmd = "Quit")
    /\ UNCHANGED <<mode, width, height, pending, nextId, inst, issued, applied>>
    /\ UNCHANGED <<prefsVars, statusVars, reportVars, toolVars>>

\* TUI: a tick or a status update reaches Model.Update, which hands it to
\* updateMonitor only while the monitor view is shown and drops it otherwise.
TuiDeliver ==
    /\ mode = "tui" /\ ~quit
    /\ \E p \in pending :
          /\ p.kind \in {"tick", "update"}
          /\ IF view = "monitorView"
             THEN LET r == UpdateMonitor(MsgOf(p)) IN
                     /\ Launched(r.cmd) <= MaxCmds
                     /\ monitor' = r.m
                     /\ pending' = Launch(pending \ {p}, r.cmd, nextId + 1, inst,
                                          issued + 1)
                     /\ nextId' = Launched(r.cmd)
                     /\ issued' = Issued(r.cmd)
                     /\ applied' = Applied(p)
             ELSE /\ pending' = pending \ {p}
                  /\ UNCHANGED <<monitor, nextId, issued, applied>>
    /\ UNCHANGED <<mode, view, width, height, quit, inst>>
    /\ UNCHANGED <<prefsVars, statusVars, reportVars, toolVars>>

\* TUI: the terminal reports its size (Model.Update, tea.WindowSizeMsg).
TuiWindowSize ==
    /\ mode = "tui" /\ ~quit
    /\ \E s \in WinSizes : width' = s[1] /\ height' = s[2]
    /\ UNCHANGED <<mode, view, monitor, pending, quit, nextId, inst, issued,
                   applied>>
    /\ UNCHANGED <<prefsVars, statusVars, reportVars, toolVars>>

Init == InitCli \/ InitTui

Next ==
    \/ PollReturns \/ CliDeliver \/ CliKey \/ CliWindowSize
    \/ TuiKeyCategory \/ TuiKeyCommand \/ TuiKeyMonitor \/ TuiDeliver
    \/ TuiWindowSize

Spec == Init /\ [][Next]_vars

(***************************************************************************)
(* parseBackupPrefs: the loop over the top-level keys, then                *)
(* parseDestinationBlock, both over the lines of the same text.  The two   *)
(* write different fields of the BackupPrefs, so the text is read once     *)
(* here, each line given to both.                                          *)
(***************************************************************************)
L_AutoBackupOff ==   \* `  AutoBackup = 0;`
    <<" ", " ", "A", "u", "t", "o", "B", "a", "c", "k", "u", "p", " ", "=",
      " ", "0", ";">>
L_AutoBackupNested ==   \* `      AutoBackup = 1;`
    <<" ", " ", " ", " ", " ", " ", "A", "u", "t", "o", "B", "a", "c", "k",
      "u", "p", " ", "=", " ", "1", ";">>

\* parseBackupPrefs: one pass of its first loop over a line.
TopLevelLine(p, line) ==
    LET parts == SplitN2(TrimSuffix(TrimSpace(line), S_Semi), S_Eq)
    IN  IF Len(parts) # 2 THEN p
        ELSE LET key == TrimSpace(parts[1])
                 val == Trim(TrimSpace(parts[2]), Quote)
             IN  IF key = K_AutoBackup
                 THEN [p EXCEPT !.AutoBackupSet = TRUE, !.AutoBackup = (val = V_One)]
                 ELSE p

\* The lines that can come next in a text that holds AutoBackup lines in the
\* outer dictionary, before and after Destinations, and inside a destination
\* entry; phase "eof" follows the `}` that closes the outer dictionary.
AutoMoves(g) ==
    IF g.phase = "pre"
    THEN Moves(g) \cup {[line |-> L_AutoBackupOff, gen |-> g]}
    ELSE IF g.phase = "dest" /\ Top(g.stack) = "entry"
    THEN Moves(g) \cup {[line |-> L_AutoBackupNested, gen |-> g]}
    ELSE IF g.phase = "end"
    THEN {[line |-> L_AutoBackup, gen |-> g], [line |-> L_AutoBackupOff, gen |-> g],
          [line |-> L_DocClose, gen |-> [g EXCEPT !.phase = "eof"]]}
    ELSE Moves(g)

\* What the outer dictionary holds for AutoBackup, by the place of each line.
ExpectedTop(e, g, line) ==
    IF g.phase \in {"pre", "end"} /\ line \in {L_AutoBackup, L_AutoBackupOff}
    THEN [e EXCEPT !.AutoBackupSet = TRUE, !.AutoBackup = (line = L_AutoBackup)]
    ELSE e

InitBackupPrefs ==
    /\ mode = "backupprefs"
    /\ UiIdle
    /\ ps = ZeroLocals
    /\ prefs = ZeroPrefs
    /\ gen = GenInit(MaxTopEntries, 0, 0)
    /\ expected = ZeroPrefs
    /\ DatesIdle /\ StatusIdle /\ ReportIdle /\ ToolIdle

\* parseBackupPrefs on the next line of the text.
BackupPrefsLine ==
    /\ mode = "backupprefs"
    /\ \E mv \in AutoMoves(gen) :
          LET r == IF ps.halted THEN [st |-> ps, p |-> prefs]
                   ELSE DestinationLine(ps, prefs, mv.line) IN
             /\ ps' = r.st
             /\ prefs' = TopLevelLine(r.p, mv.line)
             /\ gen' = mv.gen
             /\ expected' = ExpectedTop(ExpectedAfter(expected, gen, mv.line), gen,
                                        mv.line)
    /\ UNCHANGED <<uiVars, statusVars, reportVars, toolVars>>

SpecBackupPrefs == InitBackupPrefs /\ [][BackupPrefsLine]_vars

(***************************************************************************)
(* The accessors of a BackupPrefs, called on the date sequences the parser *)
(* can leave: any timestamps in any order, as the text had them.           *)
(***************************************************************************)
InitDates ==
    /\ mode = "dates"
    /\ UiIdle
    /\ ps = ZeroLocals
    /\ prefs \in {[ZeroPrefs EXCEPT !.SnapshotDates = s, !.AttemptDates = a] :
                    s \in SeqsUpTo(Times, MaxDateSeq),
                    a \in SeqsUpTo(Times, MaxDateSeq)}
    /\ gen = GenInit(MaxEntries, MaxDates, 0)
    /\ expected = ZeroPrefs
    /\ DatesIdle /\ StatusIdle /\ ReportIdle /\ ToolIdle

\* LastSnapshot, FirstSnapshot and LastBackupDuration are called on prefs.
CallAccessors ==
    /\ mode = "dates" /\ ~derived.called
    /\ derived' = [called |-> TRUE, last |-> LastSnapshot(prefs),
                   first |-> FirstSnapshot(prefs),
                   duration |-> LastBackupDuration(prefs)]
    /\ UNCHANGED <<uiVars, prefsVars, statusVars, env, rep, toolVars>>

SpecDates == InitDates /\ [][CallAccessors]_vars

(***************************************************************************)
(* parseFields and parseProgress read the same status text (both are       *)
(* called on it by parseStatusInfo and by formatStatus); each line of the  *)
(* text is given to both.                                                  *)
(***************************************************************************)
InitStatus ==
    /\ mode = "status"
    /\ UiIdle
    /\ PrefsIdle
    /\ DatesIdle /\ StatusIdle /\ ReportIdle /\ ToolIdle

StatusLine ==
    /\ mode = "status"
    /\ \E mv \in StatusMoves(sgen) :
          /\ sf' = FieldsLine(sf, mv.line)
          /\ sp' = ProgressLine(sp, mv.line)
          /\ sgen' = Scanned(mv.gen, mv.line)
    /\ UNCHANGED <<uiVars, prefsVars, reportVars, toolVars>>

SpecStatus == InitStatus /\ [][StatusLine]_vars

(***************************************************************************)
(* The status operation, served once with the subprocesses answering as    *)
(* env says.                                                               *)
(***************************************************************************)
InitReport ==
    /\ mode = "report"
    /\ UiIdle
    /\ PrefsIdle
    /\ DatesIdle /\ StatusIdle /\ ToolIdle
    /\ env \in {[status |-> s, prefs |-> p, dest |-> d, latest |-> la, list |-> li] :
                  s \in StatusAnswers, p \in PrefsAnswers(MaxReportDates),
                  d \in DestAnswers, la \in LatestAnswers, li \in ListAnswers}
    /\ rep = NoReport

\* tmutil.Status is called.
StatusCall ==
    /\ mode = "report" /\ ~rep.returned
    /\ rep' = Status(env)
    /\ UNCHANGED <<uiVars, prefsVars, statusVars, derived, env, toolVars>>

SpecReport == InitReport /\ [][StatusCall]_vars

(***************************************************************************)
(* main.go runCLI: the Execute function of a command is called once on the *)
(* arguments of the command line.                                          *)
(***************************************************************************)
InitExec ==
    /\ mode = "exec"
    /\ UiIdle
    /\ PrefsIdle
    /\ DatesIdle /\ StatusIdle /\ ReportIdle
    /\ nav = NoNav /\ fmt = NoFmt /\ text = NoText
    /\ \/ exec \in {[NoExec EXCEPT !.id = c.ID, !.args = a] :
                       c \in {x \in AllCommands : ~x.IsMonitor},
                       a \in SeqsUpTo(ArgValues, MaxArgs)}
       \/ \E c \in {x \in AllCommands : Len(x.Inputs) > 0} :
             exec \in {[NoExec EXCEPT !.id = c.ID, !.form = TRUE, !.fields = f] :
                          f \in [DOMAIN c.Inputs -> FieldValues]}

\* runCLI calls fn(args).
RunCLI ==
    /\ mode = "exec" /\ ~exec.form /\ ~exec.done
    /\ exec' = [exec EXCEPT !.done = TRUE, !.res = Execute(exec.id, exec.args)]
    /\ UNCHANGED <<uiVars, prefsVars, statusVars, reportVars, nav, fmt, text>>

\* Enter on the last field of the form: InputModel.submit; the form stays
\* as it is when submit returns nil.
FormSubmit ==
    /\ mode = "exec" /\ exec.form /\ ~exec.sent
    /\ LET c == submit([command |-> exec.id, values |-> exec.fields,
                        focus |-> Len(exec.fields) - 1])
       IN  /\ c.type = "submit"
           /\ exec' = [exec EXCEPT !.sent = TRUE, !.args = c.args]
    /\ UNCHANGED <<uiVars, prefsVars, statusVars, reportVars, nav, fmt, text>>

\* Model.Update on the inputSubmitMsg, and the command it returns:
\* executeWithArgs runs cmd.Execute(msg.args).
FormRun ==
    /\ mode = "exec" /\ exec.form /\ exec.sent /\ ~exec.done
    /\ exec' = [exec EXCEPT !.done = TRUE, !.res = Execute(exec.id, exec.args)]
    /\ UNCHANGED <<uiVars, prefsVars, statusVars, reportVars, nav, fmt, text>>

NextExec == RunCLI \/ FormSubmit \/ FormRun

SpecExec == InitExec /\ [][NextExec]_vars

(***************************************************************************)
(* parseFields, parseProgress and parseBackupPrefs over arbitrary lines:   *)
(* each line of a text is given to the loop body of each parser.  The      *)
(* first loop of parseBackupPrefs and parseDestinationBlock write          *)
(* different fields of the BackupPrefs and neither reads what the other    *)
(* wrote, so each line is given to both in turn.                           *)
(***************************************************************************)
L_Percent ==   \* `    Percent = ''0.5'';`
    S_Indent \o S_Indent \o ScalarLine(K_Percent, V_QuotedHalf)
J_NoSpaces ==   \* `Percent=1;`
    <<"P", "e", "r", "c", "e", "n", "t", "=", "1", ";">>

\* Lines the parsers take as an assignment, a structural token or an array
\* member, and lines they take as none of these.
KnownLines == {L_ProgressOpen, L_DictClose, L_Percent, L_AutoBackup,
               L_Destinations, L_SnapshotDates, M_Date1}
JunkLines == {L_StatusHeader, L_EntryNext, M_Unquoted, J_NoSpaces}

\* The state of the three parsers, and that state after one more line.
Parsers == [sf |-> sf, sp |-> sp, ps |-> ps, prefs |-> prefs]
AfterLine(line) ==
    LET r == DestinationLine(ps, TopLevelLine(prefs, line), line)
    IN  [sf |-> FieldsLine(sf, line), sp |-> ProgressLine(sp, line),
         ps |-> r.st, prefs |-> r.p]

InitLines ==
    /\ mode = "lines"
    /\ UiIdle
    /\ PrefsIdle
    /\ DatesIdle /\ StatusIdle /\ ReportIdle
    /\ nav = NoNav /\ exec = NoExec /\ fmt = NoFmt
    /\ text = NoText

\* Where the text stands as to its Progress block once line has been read:
\* "before" the first line that starts with `Progress =`, "in" the block,
\* or "after" the first `};` line that follows.
BlockAfter(block, line) ==
    IF block = "before" /\ HasPrefix(TrimSpace(line), S_ProgressEq) THEN "in"
    ELSE IF block = "in" /\ TrimSpace(line) = S_RBraceSemi THEN "after"
    ELSE block

\* The next line of the text is read by the parsers.
AnyLine ==
    /\ mode = "lines" /\ text.n < MaxLines
    /\ \E line \in KnownLines \cup JunkLines :
          LET r == AfterLine(line) IN
             /\ sf' = r.sf /\ sp' = r.sp /\ ps' = r.ps /\ prefs' = r.prefs
             /\ text' = [n |-> text.n + 1,
                         junk |-> text.junk + (IF line \in JunkLines THEN 1 ELSE 0),
                         last |-> line,
                         block |-> BlockAfter(text.block, line)]
    /\ UNCHANGED <<uiVars, gen, expected, sgen, reportVars, nav, exec, fmt>>

SpecLines == InitLines /\ [][AnyLine]_vars

(***************************************************************************)
(* The form of a command: the Model from NewModel under the keys of the    *)
(* form, with the messages of the form and of the commands delivered.      *)
(***************************************************************************)
InitInput ==
    /\ mode = "input"
    /\ UiIdle
    /\ PrefsIdle
    /\ DatesIdle /\ StatusIdle /\ ReportIdle /\ ToolIdle

InputKey ==
    /\ mode = "input" /\ ~nav.quit /\ ~nav.panic
    /\ \E k \in InputKeys :
          /\ UpdateKey(nav.m, k).m.view \notin {"helpCategoryView", "monitorView"}
          /\ AfterKey(nav, k).issued <= MaxTeaCmds
          /\ nav' = AfterKey(nav, k)
    /\ UNCHANGED <<uiVars, prefsVars, statusVars, reportVars, exec, fmt, text>>

InputDeliver ==
    /\ mode = "input" /\ ~nav.quit /\ ~nav.panic
    /\ \E msg \in nav.flight :
          /\ AfterMsg(nav, msg, 1).issued <= MaxTeaCmds
          /\ nav' = AfterMsg(nav, msg, 1)
    /\ UNCHANGED <<uiVars, prefsVars, statusVars, reportVars, exec, fmt, text>>

NextInput == InputKey \/ InputDeliver

SpecInput == InitInput /\ [][NextInput]_vars

(***************************************************************************)
(* The views of the TUI: the Model from NewModel under keys that reach     *)
(* every view, with the messages of the forms and of the commands          *)
(* delivered.  The cursors are moved in the category menu only.            *)
(***************************************************************************)
InitViews ==
    /\ mode = "views"
    /\ UiIdle
    /\ PrefsIdle
    /\ DatesIdle /\ StatusIdle /\ ReportIdle /\ ToolIdle

ViewKey ==
    /\ mode = "views" /\ ~nav.quit /\ ~nav.panic
    /\ \E k \in ViewKeys :
          /\ k = "up" => nav.m.view = "categoryView"
          /\ AfterKey(nav, k).issued <= MaxTeaCmds
          /\ nav' = AfterKey(nav, k)
    /\ UNCHANGED <<uiVars, prefsVars, statusVars, reportVars, exec, fmt, text>>

ViewDeliver ==
    /\ mode = "views" /\ ~nav.quit /\ ~nav.panic
    /\ \E msg \in nav.flight :
          /\ AfterMsg(nav, msg, 1).issued <= MaxTeaCmds
          /\ nav' = AfterMsg(nav, msg, 1)
    /\ UNCHANGED <<uiVars, prefsVars, statusVars, reportVars, exec, fmt, text>>

NextViews == ViewKey \/ ViewDeliver

SpecViews == InitViews /\ [][NextViews]_vars

(***************************************************************************)
(* renderProgressBar applied to one percent.                               *)
(***************************************************************************)
InitBar ==
    /\ mode = "bar"
    /\ UiIdle
    /\ PrefsIdle
    /\ DatesIdle /\ StatusIdle /\ ReportIdle
    /\ nav = NoNav /\ exec = NoExec /\ text = NoText
    /\ \E p \in Percents : fmt = [NoFmt EXCEPT !.kind = "percent", !.percent = p]

\* renderProgressBar(percent)
RenderBar ==
    /\ mode = "bar" /\ fmt.kind = "percent" /\ ~fmt.done
    /\ \E bar \in renderProgressBar(fmt.percent) :
          fmt' = [fmt EXCEPT !.done = TRUE, !.bar = bar]
    /\ UNCHANGED <<uiVars, prefsVars, statusVars, reportVars, nav, exec, text>>

NextBar == RenderBar

SpecBar == InitBar /\ [][NextBar]_vars

(***************************************************************************)
(* The output view under scroll keys, window sizes and command results.    *)
(***************************************************************************)
InitScroll ==
    /\ mode = "scroll"
    /\ UiIdle
    /\ PrefsIdle
    /\ DatesIdle /\ StatusIdle /\ ReportIdle /\ ToolIdle

ScrollKey ==
    /\ mode = "scroll" /\ ~nav.quit /\ ~nav.panic
    /\ \E k \in ScrollKeys :
          /\ UpdateKey(nav.m, k).m.view \in {"categoryView", "commandView", "outputView"}
          /\ AfterKey(nav, k).issued <= MaxTeaCmds
          /\ nav' = AfterKey(nav, k)
    /\ UNCHANGED <<uiVars, prefsVars, statusVars, reportVars, exec, fmt, text>>

\* A command has run: its commandResultMsg reaches Model.Update.
ScrollDeliver ==
    /\ mode = "scroll" /\ ~nav.quit /\ ~nav.panic
    /\ \E msg \in nav.flight : \E lines \in ScrollLines :
          nav' = AfterMsg(nav, msg, lines)
    /\ UNCHANGED <<uiVars, prefsVars, statusVars, reportVars, exec, fmt, text>>

\* Model.Update, case tea.WindowSizeMsg.
ScrollWindowSize ==
    /\ mode = "scroll" /\ ~nav.quit /\ ~nav.panic
    /\ \E h \in ScrollHeights : nav' = [nav EXCEPT !.m.height = h]
    /\ UNCHANGED <<uiVars, prefsVars, statusVars, reportVars, exec, fmt, text>>

NextScroll == ScrollKey \/ ScrollDeliver \/ ScrollWindowSize

SpecScroll == InitScroll /\ [][NextScroll]_vars

(***************************************************************************)
(* The formatters, each applied to an argument of its kind.                *)
(***************************************************************************)
InitFormat ==
    /\ mode = "format"
    /\ UiIdle
    /\ PrefsIdle
    /\ DatesIdle /\ StatusIdle /\ ReportIdle
    /\ nav = NoNav /\ exec = NoExec /\ text = NoText
    /\ \/ \E n \in Counts :
             fmt = [NoFmt EXCEPT !.kind = "bytes", !.n = n, !.str = FormatInt(n)]
       \/ \E d \in Durations : fmt = [NoFmt EXCEPT !.kind = "duration", !.d = d]

\* FormatBytesInt64(n) and formatBytes of the text of n.
FormatBytes ==
    /\ mode = "format" /\ fmt.kind = "bytes" /\ ~fmt.done
    /\ fmt' = [fmt EXCEPT !.done = TRUE, !.int64 = FormatBytesInt64(fmt.n),
                          !.text = formatBytes(fmt.str)]
    /\ UNCHANGED <<uiVars, prefsVars, statusVars, reportVars, nav, exec, text>>

\* FormatDuration(d)
FormatDur ==
    /\ mode = "format" /\ fmt.kind = "duration" /\ ~fmt.done
    /\ fmt' = [fmt EXCEPT !.done = TRUE, !.parts = FormatDuration(fmt.d)]
    /\ UNCHANGED <<uiVars, prefsVars, statusVars, reportVars, nav, exec, text>>

NextFormat == FormatBytes \/ FormatDur

SpecFormat == InitFormat /\ [][NextFormat]_vars

(***************************************************************************)
(* main.go runTUI: the Model under key presses and the messages of the     *)
(* commands it has returned, delivered in any order.                       *)
(***************************************************************************)
InitNav ==
    /\ mode = "nav"
    /\ UiIdle
    /\ PrefsIdle
    /\ DatesIdle /\ StatusIdle /\ ReportIdle /\ ToolIdle

\* A key press reaches Model.Update.
NavKey ==
    /\ mode = "nav" /\ ~nav.quit /\ ~nav.panic
    /\ \E k \in NavKeys :
          /\ UpdateKey(nav.m, k).m.view # "helpCategoryView"
          /\ AfterKey(nav, k).issued <= MaxTeaCmds
          /\ nav' = AfterKey(nav, k)
    /\ UNCHANGED <<uiVars, prefsVars, statusVars, reportVars, exec, fmt, text>>

\* A command has run, or a message of the form has come through: its
\* message reaches Model.Update.
NavDeliver ==
    /\ mode = "nav" /\ ~nav.quit /\ ~nav.panic
    /\ \E msg \in nav.flight : \E lines \in OutputLines :
          /\ AfterMsg(nav, msg, lines).issued <= MaxTeaCmds
          /\ nav' = AfterMsg(nav, msg, lines)
    /\ UNCHANGED <<uiVars, prefsVars, statusVars, reportVars, exec, fmt, text>>

NextNav == NavKey \/ NavDeliver

SpecNav == InitNav /\ [][NextNav]_vars

(***************************************************************************)
(* Properties of the monitor                                               *)
(***************************************************************************)

\* Samples applied so far to the current instance.
Successes == {i \in DOMAIN applied : applied[i].err = NoErr}
Failures == {i \in DOMAIN applied : applied[i].err # NoErr}
Finished == {i \in Successes : ~applied[i].running}

\* C1: once done is true, the instance has no tick scheduled and no
\* pollStatus sample issued.
C1_NoSamplingAfterDone ==
    monitor.done =>
        ~\E p \in pending : p.owner = inst /\ p.kind \in {"tick", "poll"}

C3_DoneSticky == [][(monitor.done /\ inst' = inst) => monitor'.done]_vars

\* done is still true after a later successful sample with Running == true.
C3_Witness ==
    /\ monitor.done
    /\ \E i \in Finished : \E j \in Successes : i < j /\ applied[j].running

\* C4: applying a failed sample records the error, leaves done as it was
\* and schedules the next tick.
C4_FailedSampleKeepsSampling ==
    [][(Len(applied') = Len(applied) + 1 /\ applied'[Len(applied')].err # NoErr)
        => /\ monitor'.err = applied'[Len(applied')].err
           /\ monitor'.done = monitor.done
           /\ \E p \in pending' \ pending : p.kind = "tick" /\ p.owner = inst]_vars

\* Two consecutive failures were applied and the successful sample after them
\* was applied too.
C4_Witness ==
    \E i \in DOMAIN applied :
        /\ i + 2 = Len(applied)
        /\ {i, i + 1} \subseteq Failures
        /\ i + 2 \in Successes
        /\ monitor.err = NoErr

\* C5: an instance has at most one sampling activity outstanding (a pending
\* tick, a pollStatus in flight or an undelivered statusUpdateMsg).
C5_OneSamplingActivity ==
    \A p, q \in pending : p.owner = q.owner => p = q

\* C6: a tick or status update of a monitor whose view the user has left
\* (another view is shown, or another instance has been created since) is
\* dropped when it is delivered: the monitor is unchanged and nothing is
\* scheduled.
C6_StaleMessageDropped ==
    [][\A p \in pending :
          (/\ mode = "tui"
           /\ p.owner < inst \/ view # "monitorView"
           /\ p.kind \in {"tick", "update"}
           /\ p \notin pending')
              => (monitor' = monitor /\ pending' = pending \ {p})]_vars

\* C7: the i-th status update applied to an instance is the result of the
\* i-th sample issued for it, and a sample is outstanding only when every
\* earlier one has been applied.
C7_StrictSampleOrder ==
    /\ \A i \in DOMAIN applied : applied[i].owner = inst /\ applied[i].sample = i
    /\ \A p \in pending :
          (p.owner = inst /\ p.kind \in {"poll", "update"})
              => p.sample = Len(applied) + 1

\* The order of C7 in the runs in which no second instance is created.
C7_OrderOfSingleInstance == inst <= 1 => C7_StrictSampleOrder

(***************************************************************************)
(* Properties of the preferences parser                                    *)
(***************************************************************************)

\* parseDestinationBlock has returned: its loop has ended on a break or the
\* text has no further line.
ParseDone == mode = "prefs" /\ (ps.halted \/ Moves(gen) = {})

DestinationFields(p) ==
    <<p.BytesUsed, p.BytesAvailable, p.Encryption, p.SnapshotDates, p.AttemptDates>>

\* C8: of a text whose Destinations array holds two or more entries, the
\* result holds BytesUsed, BytesAvailable, Encryption, SnapshotDates and
\* AttemptDates of the first entry only.
C8_FirstEntryOnly ==
    (ParseDone /\ gen.entryNo >= 2)
        => DestinationFields(prefs) = DestinationFields(expected)

\* C9: a timestamp is appended to SnapshotDates only by a member of an array
\* opened as SnapshotDates, and to AttemptDates only by a member of an array
\* opened as AttemptDates.
C9_DatesFromOwnArray ==
    [][/\ prefs'.SnapshotDates # prefs.SnapshotDates
            => (gen.stack # <<>> /\ Top(gen.stack) = "SnapshotDates")
       /\ prefs'.AttemptDates # prefs.AttemptDates
            => (gen.stack # <<>> /\ Top(gen.stack) = "AttemptDates")]_vars

\* C10: the resulting SnapshotDates and AttemptDates are exactly the
\* parseable quoted members of the first entry's arrays of those names, in
\* the order of the text.
C10_ExactlyTheArrayMembers ==
    ParseDone => /\ prefs.SnapshotDates = expected.SnapshotDates
                 /\ prefs.AttemptDates = expected.AttemptDates

\* While the first entry is read, the fields filled are those of the entry.
FirstEntryExact == gen.entryNo <= 1 => prefs = expected

(***************************************************************************)
(* Properties of the accessors and of parseBackupPrefs                     *)
(***************************************************************************)

RangeOf(seq) == {seq[i] : i \in DOMAIN seq}
\* The latest and the earliest of a non-empty set of times.
MaxTime(S) == CHOOSE t \in S : \A u \in S : ~After(u, t)
MinTime(S) == CHOOSE t \in S : \A u \in S : ~After(t, u)

\* C11: of every BackupPrefs the parser returns, LastSnapshot is the latest
\* and FirstSnapshot the earliest member of SnapshotDates, and both are the
\* zero time when SnapshotDates is empty.
C11_LastIsMaxFirstIsMin ==
    ParseDone =>
        IF prefs.SnapshotDates = <<>>
        THEN LastSnapshot(prefs) = ZeroTime /\ FirstSnapshot(prefs) = ZeroTime
        ELSE /\ LastSnapshot(prefs) = MaxTime(RangeOf(prefs.SnapshotDates))
             /\ FirstSnapshot(prefs) = MinTime(RangeOf(prefs.SnapshotDates))

\* The accessors return the last and the first member, and the zero time of
\* an empty SnapshotDates.
LastIsLastMember ==
    ParseDone =>
        IF prefs.SnapshotDates = <<>>
        THEN LastSnapshot(prefs) = ZeroTime /\ FirstSnapshot(prefs) = ZeroTime
        ELSE /\ LastSnapshot(prefs) = prefs.SnapshotDates[Len(prefs.SnapshotDates)]
             /\ FirstSnapshot(prefs) = prefs.SnapshotDates[1]

\* lastSnapshot minus the latest attempt that is not after it, zero when there
\* is no snapshot or no such attempt; lastSnapshot is last, or absent.
DurationFrom(last, attempts) ==
    LET ok == {a \in RangeOf(attempts) : ~After(a, last)}
    IN  IF IsZero(last) \/ ok = {} THEN 0 ELSE Sub(last, MaxTime(ok))

\* C12: LastBackupDuration is lastSnapshot (the latest member of
\* SnapshotDates) minus the latest attempt date not after it, zero when
\* SnapshotDates or AttemptDates is empty or every attempt is after
\* lastSnapshot, and never negative.
C12_DurationFromLatestAttempt ==
    derived.called =>
        /\ derived.duration =
              DurationFrom(IF prefs.SnapshotDates = <<>> THEN ZeroTime
                           ELSE MaxTime(RangeOf(prefs.SnapshotDates)),
                           prefs.AttemptDates)
        /\ derived.duration >= 0

\* The same with the value LastSnapshot returns in the place of lastSnapshot.
DurationOfLastMember ==
    derived.called =>
        /\ derived.duration = DurationFrom(derived.last, prefs.AttemptDates)
        /\ derived.duration >= 0

\* The example of the specification: 20 minutes.
DurationExample ==
    (/\ derived.called
     /\ prefs.SnapshotDates = <<T_Feb1_1000, T_Feb5_1000>>
     /\ prefs.AttemptDates = <<T_Feb1_0950, T_Feb5_0940>>)
        => derived.duration = 20 * 60

\* parseBackupPrefs has returned: the text has ended.
BackupPrefsDone == mode = "backupprefs" /\ gen.phase = "eof"

\* C13: AutoBackupSet is true iff the outer dictionary of the text holds an
\* AutoBackup assignment (a line inside a nested dictionary or array does not
\* count), and then AutoBackup is true iff its value is 1.
C13_AutoBackupTopLevelOnly ==
    BackupPrefsDone => /\ prefs.AutoBackupSet = expected.AutoBackupSet
                       /\ prefs.AutoBackup = expected.AutoBackup

(***************************************************************************)
(* Properties of the status text parsers                                   *)
(***************************************************************************)

\* parseFields and parseProgress have returned: the text has ended.
StatusDone == mode = "status" /\ sgen.phase = "end"

\* C14: every key of the map parseFields returns is assigned by a scalar
\* line of the outer dictionary: no assignment inside a nested dictionary
\* and no line that opens one adds a key.
C14_NestedContentSkipped == StatusDone => MapKeys(sf.fields) \subseteq sgen.top

\* The same of the Progress dictionary alone, when it holds no dictionary.
ProgressContentSkipped ==
    (StatusDone /\ sgen.dicts = 1 /\ sgen.progressSeen)
        => MapKeys(sf.fields) \subseteq sgen.top

\* C15: for every line key = ''value''; outside the Progress block, the map
\* of parseFields has value under key (the last such line of a key wins).
C15_QuotedScalarStored == StatusDone => \A e \in sgen.well : e \in sf.fields

\* The same of the texts whose Progress dictionary holds no dictionary.
QuotedScalarStoredFlatProgress ==
    (StatusDone /\ ~sgen.progressNested) => \A e \in sgen.well : e \in sf.fields

\* C16: a value stored by parseFields or parseProgress is the text after
\* ` = ` without the one pair of quotes around it if it has a quote on both
\* ends, and that text as it is otherwise.
C16_OnlySurroundingPairStripped ==
    [][/\ \A e \in sf'.fields \ sf.fields :
             e = <<sgen'.last.key, StripPair(sgen'.last.raw)>>
       /\ \A e \in sp'.progress \ sp.progress :
             e = <<sgen'.last.key, StripPair(sgen'.last.raw)>>]_vars

\* The monitor after the sample parseStatusInfo makes of the text.
MonitorAfterSample ==
    ApplyStatusUpdate(NewMonitorModel,
                      [type |-> "statusUpdateMsg",
                       info |-> ParseStatusInfo(sf.fields, sp.progress),
                       err |-> NoErr]).m

\* C17: when the text yields Running == false, formatStatus writes no
\* Completed or Remaining value read from the Progress fields and renderBody
\* does not render the progress of the sample.
C17_NoProgressWhenNotRunning ==
    (StatusDone /\ ~ParseStatusInfo(sf.fields, sp.progress).Running)
        => /\ FormatStatus(sgen.containsRunningZero, sf.fields,
                           sp.progress).progressLines = {}
           /\ RenderBody(MonitorAfterSample) # "progress"

\* The monitor's half of C17.
MonitorShowsNoStaleProgress ==
    (StatusDone /\ ~ParseStatusInfo(sf.fields, sp.progress).Running)
        => RenderBody(MonitorAfterSample) # "progress"

(***************************************************************************)
(* Properties of the status operation                                      *)
(***************************************************************************)

Called(cmd) == \E i \in DOMAIN rep.calls : rep.calls[i].cmd = cmd
SectionsNamed(name) == {i \in DOMAIN rep.out : rep.out[i].name = name}
SectionFrom(name, source) ==
    \E i \in SectionsNamed(name) : rep.out[i].source = source

\* C18: in the idle report the status text's AutoBackup field is used only
\* if the preferences read failed or had no AutoBackup key, latestbackup and
\* listbackups are run only if the preferences gave no snapshot date, and
\* each of Auto Backup, Last Backup and Backup History is written at most
\* once.
C18_LiveToolsOnlyAsFallback ==
    rep.returned =>
        /\ SectionFrom("Auto Backup", "status")
              => (env.prefs.res # "ok" \/ ~env.prefs.prefs.AutoBackupSet)
        /\ Called("latestbackup")
              => (env.prefs.res # "ok" \/ env.prefs.prefs.SnapshotDates = <<>>)
        /\ Called("listbackups")
              => (env.prefs.res # "ok" \/ env.prefs.prefs.SnapshotDates = <<>>)
        /\ \A name \in {"Auto Backup", "Last Backup", "Backup History"} :
              Cardinality(SectionsNamed(name)) <= 1

\* An idle report whose preferences were read but hold neither the
\* AutoBackup key nor a snapshot date: all three sections come from the
\* live tools.
C18_Witness ==
    /\ rep.returned
    /\ env.prefs.res = "ok" /\ ~env.prefs.prefs.AutoBackupSet
    /\ env.prefs.prefs.SnapshotDates = <<>>
    /\ SectionFrom("Auto Backup", "status")
    /\ SectionFrom("Last Backup", "latestbackup")
    /\ SectionFrom("Backup History", "listbackups")

\* An idle report whose preferences hold everything: no live tool is asked
\* for the last backup or the history.
FallbackNotTaken ==
    /\ rep.returned
    /\ SectionFrom("Auto Backup", "prefs")
    /\ SectionFrom("Last Backup", "prefs")
    /\ SectionFrom("Backup History", "prefs")
    /\ ~Called("latestbackup") /\ ~Called("listbackups")

\* C19: when the live status read fails and the preferences read succeeds
\* with one snapshot date, Status returns no error and a report with the
\* Last Backup section showing that date.
C19_ReportDespiteStatusFailure ==
    (/\ rep.returned
     /\ env.status.res # "ok"
     /\ env.prefs.res = "ok"
     /\ Len(env.prefs.prefs.SnapshotDates) = 1)
        => /\ rep.err = NilError
           /\ \E i \in SectionsNamed("Last Backup") :
                 rep.out[i].date = env.prefs.prefs.SnapshotDates[1]

\* C20: every subprocess that failed while Status was served is returned to
\* the caller as an error that carries its combined output.
C20_FailedInvocationSurfaces ==
    rep.returned =>
        \A i \in DOMAIN rep.calls :
            rep.calls[i].res # "ok"
                => /\ rep.err.cause = rep.calls[i].res
                   /\ rep.err.output = OutputOf(rep.calls[i].cmd)

\* The failure of `tmutil status` itself is returned with its output.
StatusFailureSurfaces ==
    (rep.returned /\ env.status.res # "ok")
        => rep.err = RunError("status", env.status.res)

(***************************************************************************)
(* Properties of the commands                                              *)
(***************************************************************************)

\* The command c, run on args, lacks a Required input: the argument of a
\* Required position is missing or empty, or a date of findbydate that is
\* given does not parse.
RequiredUnmet(c, args) ==
    \/ \E i \in DOMAIN c.Inputs : c.Inputs[i] /\ (Len(args) < i \/ args[i] = <<>>)
    \/ /\ c.ID = "findbydate"
       /\ \E i \in 1..2 : Len(args) >= i /\ args[i] # <<>> /\ ~ParseDateOk(args[i])

\* C21: a command run with a Required argument missing, empty or malformed
\* returns an error and has started no subprocess, for every Required
\* position of every command.
C21_RequiredCheckedBeforeRun ==
    (mode = "exec" /\ exec.done /\ RequiredUnmet(FindCommand(exec.id), exec.args))
        => (exec.res.rejected /\ exec.res.calls = <<>>)

\* The same of the first Required position alone, restore and delete aside.
FirstRequiredChecked ==
    (/\ mode = "exec" /\ exec.done
     /\ exec.id \notin {"restore", "delete"}
     /\ LET c == FindCommand(exec.id) IN
           \/ Len(c.Inputs) > 0 /\ c.Inputs[1] /\ NoFirst(exec.args)
           \/ c.ID = "findbydate" /\ RequiredUnmet(c, exec.args))
        => (exec.res.rejected /\ exec.res.calls = <<>>)

(***************************************************************************)
(* Properties of the parsers over arbitrary lines                          *)
(***************************************************************************)

\* C22: parseFields, parseProgress and parseBackupPrefs take every line and
\* keep a result after it; wherever they stand in a text, a line that is
\* neither an assignment nor a structural token nor an array member leaves
\* their maps, the BackupPrefs and their locals as they were, so that the
\* lines after it are read as if it were not there.
C22_UnrecognisedLineIgnored ==
    mode = "lines" => \A j \in JunkLines : AfterLine(j) = Parsers

\* Unrecognised lines have been read and the assignment after them is
\* stored, inside the Progress block.
C22_Witness ==
    /\ mode = "lines" /\ text.junk > 0 /\ text.last = L_Percent
    /\ sp.inProgress /\ MapHas(sp.progress, K_Percent)
    /\ ps.inDest

(***************************************************************************)
(* Properties of the command submenu and of the forms                      *)
(***************************************************************************)
\* C23: in the command submenu of every category the key b goes back to the
\* category menu and the key q quits, whatever the hotkeys of the commands
\* of that category.
C23_BackAndQuitKeys ==
    [][(mode = "nav" /\ nav.m.view = "commandView" /\ ~nav.quit /\ ~nav.panic)
          => /\ nav' = AfterKey(nav, "b") => nav'.m.view = "categoryView"
             /\ nav' = AfterKey(nav, "q") => nav'.quit]_vars

\* C24: no run started from a form hands an empty string to tmutil, and
\* Compare with both fields left blank runs tmutil compare without arguments.
C24_BlankFieldsNotPassed ==
    (mode = "exec" /\ exec.form /\ exec.done /\ ~exec.res.rejected)
        => /\ \A i \in DOMAIN exec.res.calls :
                 \A j \in DOMAIN exec.res.calls[i].args :
                     exec.res.calls[i].args[j] # <<>>
           /\ (exec.id = "compare"
                 /\ \A i \in DOMAIN exec.fields : TrimSpace(exec.fields[i]) = <<>>)
                => exec.res.calls = <<[verb |-> "compare", args |-> <<>>]>>

(***************************************************************************)
(* Properties of the Model under asynchronous messages                     *)
(***************************************************************************)
\* C29: whenever the view is the command submenu, catCursor indexes an
\* existing category and cmdCursor is at most the number of its commands
\* plus one, under every interleaving of keys and delivered messages, so
\* that no index expression of the Model runs out of range.
C29_CursorsInRange ==
    mode = "nav" =>
        /\ ~nav.panic
        /\ nav.m.view = "commandView" =>
              /\ nav.m.catCursor >= 0
              /\ nav.m.catCursor < Len(Categories)
              /\ nav.m.cmdCursor <= Len(Categories[nav.m.catCursor + 1].Commands) + 1

\* C30: a commandResultMsg of a command that is not the last one launched,
\* or one delivered while the view is not the output view, neither replaces
\* the output on display nor changes the view.
C30_StaleResultIgnored ==
    [][\A f \in nav.flight : \A lines \in OutputLines :
          (/\ mode = "nav"
           /\ f.type = "commandResultMsg"
           /\ nav' = AfterMsg(nav, f, lines)
           /\ f.id # nav.launched \/ nav.m.view # "outputView")
              => (nav'.m.output = nav.m.output /\ nav'.m.view = nav.m.view)]_vars

(***************************************************************************)
(* Properties of the progress fields of the status                         *)
(***************************************************************************)
\* C25: when the total byte count of the status text is zero or absent,
\* neither the monitor's renderBody nor formatStatus writes a `Bytes:` line.
C25_ZeroTotalNotShown ==
    (StatusDone /\ ParseStatusInfo(sf.fields, sp.progress).TotalBytes = 0)
        => /\ "Bytes" \notin RenderSizeLines(MonitorAfterSample)
           /\ "Bytes" \notin FormatStatus(sgen.containsRunningZero, sf.fields,
                                          sp.progress).sizeLines

\* The same of the monitor alone.
MonitorHidesZeroTotal ==
    (StatusDone /\ ParseStatusInfo(sf.fields, sp.progress).TotalBytes = 0)
        => "Bytes" \notin RenderSizeLines(MonitorAfterSample)

\* A Progress block that reports every progress field as zero.
ZeroedProgress ==
    {<<K_Percent, V_Zero>>, <<K_TimeRemaining, V_Zero>>, <<K_bytes, V_Zero>>,
     <<K_totalBytes, V_Zero>>, <<K_files, V_Zero>>, <<K_totalFiles, V_Zero>>}

\* C26: the snapshot parseStatusInfo builds from a status text without a
\* Progress block differs from the snapshot of the same text with a
\* Progress block that reports every progress field as zero.
C26_AbsentIsNotZero ==
    (StatusDone /\ ~sgen.progressSeen)
        => ParseStatusInfo(sf.fields, sp.progress)
              # ParseStatusInfo(sf.fields, ZeroedProgress)

(***************************************************************************)
(* Properties of the formatters                                            *)
(***************************************************************************)
UnitNames == <<"B", "KB", "MB", "GB", "TB">>

\* C27: FormatBytesInt64 and formatBytes print a count below 1000 as the
\* integer with B, a count below 10^6 with KB, below 10^9 with MB, below
\* 10^12 with GB and any other with TB, divided by the power of 1000 of the
\* unit, and print the same for the same count.  (A count is below 1000^k
\* when it has at most k groups of three digits.)
C27_UnitByDecimalThresholds ==
    (mode = "format" /\ fmt.kind = "bytes" /\ fmt.done)
        => LET pow == IF Len(fmt.n) > 4 THEN 4 ELSE Len(fmt.n) - 1
           IN  /\ fmt.int64.n = fmt.n
               /\ fmt.int64.pow = pow
               /\ fmt.int64.unit = UnitNames[pow + 1]
               /\ pow = 0 <=> fmt.int64.verb = "%d"
               /\ pow > 0 <=> fmt.int64.verb = "%.1f"
               /\ Printed(fmt.text) = Printed(fmt.int64)

\* Both have formatted the count 10^12, the least one printed with TB.
C27_Witness ==
    /\ mode = "format" /\ fmt.kind = "bytes" /\ fmt.done
    /\ fmt.n = <<1, 0, 0, 0, 0>>
    /\ fmt.int64.unit = "TB" /\ fmt.text.unit = "TB"

UnitWords == <<{"day", "days"}, {"hour", "hours"}, {"minute", "minutes"},
               {"second", "seconds"}>>
UnitSeconds == <<86400, 3600, 60, 1>>
Rank(word) == CHOOSE r \in 1..4 : word \in UnitWords[r]
RECURSIVE TotalSeconds(_)
TotalSeconds(parts) ==
    IF parts = <<>> THEN 0
    ELSE Head(parts).n * UnitSeconds[Rank(Head(parts).word)] + TotalSeconds(Tail(parts))

C31_IdleIffNotRunning ==
    StatusDone
        => (FormatStatus(sgen.containsRunningZero, sf.fields, sp.progress).idle
              <=> ~ParseStatusInfo(sf.fields, sp.progress).Running)

\* C38: Running of the snapshot is true exactly when the Running line of
\* the outer dictionary has the value 1 once its quotes are stripped; it is
\* false without such a line and on any other value.
C38_RunningIffTopLevelOne ==
    StatusDone
        => (ParseStatusInfo(sf.fields, sp.progress).Running
              <=> StripPair(sgen.topRunning) = V_One)

\* The same on the texts without a dictionary nested in another.
RunningIffOneWhenFlat ==
    (StatusDone /\ sgen.dicts = 0)
        => (ParseStatusInfo(sf.fields, sp.progress).Running
              <=> StripPair(sgen.topRunning) = V_One)

(***************************************************************************)
(* Properties of the Progress block                                        *)
(***************************************************************************)
\* C32: parseProgress takes an assignment only from a line between the first
\* line that starts with `Progress =` and the first `};` line after it,
\* parseFields takes none from those lines, and no line adds an entry to
\* both maps; a key outside the block never becomes a progress value.
C32_ProgressBlockIsolated ==
    [][mode = "lines"
          => /\ sp'.progress # sp.progress => (text.block = "in" /\ text'.block = "in")
             /\ sf'.fields # sf.fields => text.block # "in"
             /\ ~(sp'.progress # sp.progress /\ sf'.fields # sf.fields)]_vars

\* A text with a Percent line inside its Progress block and another after
\* the block has been read: each map holds its own Percent.
C32_Witness ==
    /\ mode = "lines" /\ text.block = "after" /\ text.last = L_Percent
    /\ MapHas(sp.progress, K_Percent) /\ sp.halted
    /\ MapHas(sf.fields, K_Percent)

(***************************************************************************)
(* Properties of the monitor's samples and of what it renders              *)
(***************************************************************************)
\* The sample applied by this step, if the step applies one.
AppliesSample == Len(applied') = Len(applied) + 1
SampleApplied == applied'[Len(applied')]

\* C33: a failed sample changes the recorded error and nothing else of the
\* monitor (the snapshot and done stay as they were); a successful sample
\* replaces the snapshot and clears the recorded error.
C33_FailedSampleChangesErrOnly ==
    [][AppliesSample
          => /\ SampleApplied.err # NoErr
                  => monitor' = [monitor EXCEPT !.err = SampleApplied.err]
             /\ SampleApplied.err = NoErr
                  => /\ monitor'.info = [ZeroInfo EXCEPT !.Running = SampleApplied.running]
                     /\ monitor'.err = NoErr]_vars

\* A failed sample has been applied after a successful one that reported a
\* running backup: the error is recorded and the snapshot is still running.
C33_Witness ==
    /\ mode \in {"cli", "tui"}
    /\ Len(applied) >= 2 /\ Len(applied) \in Failures
    /\ monitor.err # NoErr /\ monitor.info.Running /\ ~monitor.done

SampleFollowsTick ==
    \A p \in pending' \ pending :
        p.kind = "poll"
            => \/ p.sample = 1 /\ inst' = inst + 1 /\ p.owner = inst'
               \/ /\ p.sample > 1 /\ p.sample = Len(applied) + 1
                  /\ \E q \in pending \ pending' :
                        q.kind = "tick" /\ q.owner = p.owner
                  /\ applied[p.sample - 1].owner = p.owner
                  /\ applied[p.sample - 1].sample = p.sample - 1

\* C39: a monitor starts with exactly one sample issued (Init returns
\* pollStatus); every later sample is issued in answer to a tick that the
\* same monitor scheduled when it applied the result of its previous sample.
C39_SamplesFollowTicks == [][SampleFollowsTick]_vars

\* The same of the runs in which no second monitor is created.
SamplesFollowTicksOfSingleInstance == [][inst' <= 1 => SampleFollowsTick]_vars

(***************************************************************************)
(* Properties of the output view                                           *)
(***************************************************************************)
\* C35: after any keys, window sizes and command results scrollOffset is at
\* least 0 and less than the number of output lines (less than 1 when there
\* is none), the slice renderOutput takes has valid bounds, and a command
\* result sets scrollOffset to 0.
C35_ScrollOffsetInRange ==
    [][mode = "scroll"
          => /\ nav'.m.scrollOffset >= 0
             /\ nav'.m.scrollOffset
                   < (IF nav'.m.output.lines > 1 THEN nav'.m.output.lines ELSE 1)
             /\ renderOutput(nav'.m).sliced
                   => /\ 0 <= renderOutput(nav'.m).low
                      /\ renderOutput(nav'.m).low <= renderOutput(nav'.m).high
                      /\ renderOutput(nav'.m).high <= nav'.m.output.lines
             /\ (\E f \in nav.flight \ nav'.flight : f.type = "commandResultMsg")
                   => nav'.m.scrollOffset = 0]_vars

\* The output has been scrolled down and the window has grown since: the
\* offset is beyond what the new page size would let the keys reach.
C35_Witness ==
    /\ mode = "scroll" /\ nav.m.view = "outputView"
    /\ nav.m.scrollOffset > 0
    /\ nav.m.scrollOffset > nav.m.output.lines - outputPageSize(nav.m)
    /\ renderOutput(nav.m).sliced

(***************************************************************************)
(* Properties of the form                                                  *)
(***************************************************************************)
\* The Required fields of the form in all hold a visible character.
RequiredFilled(in) ==
    \A i \in DOMAIN in.values :
        FindCommand(in.command).Inputs[i] => TrimSpace(in.values[i]) # <<>>

\* C36: the form sends inputSubmitMsg only when every Required field is not
\* blank once trimmed, with one trimmed argument for each field in the
\* order of the fields; enter on a field that is not the last only moves
\* the focus to the next one, and the focus stays within 0..len(fields)-1
\* under tab, shift+tab, up, down and enter.
C36_SubmitOnlyWhenRequiredFilled ==
    [][(mode = "input" /\ nav.m.view = "inputView")
          => LET in == nav.m.input
                 n == Len(in.values)
                 sent == {f \in nav'.flight \ nav.flight : f.type = "inputSubmitMsg"}
             IN  /\ sent # {}
                     => /\ nav' = AfterKey(nav, "enter")
                        /\ in.focus = n - 1
                        /\ RequiredFilled(in)
                        /\ submit(in).command = in.command
                        /\ Len(submit(in).args) = n
                        /\ \A i \in 1..n : submit(in).args[i] = TrimSpace(in.values[i])
                 /\ (nav' = AfterKey(nav, "enter") /\ in.focus < n - 1)
                     => /\ nav'.m = [nav.m EXCEPT !.input.focus = in.focus + 1]
                        /\ nav'.flight = nav.flight
                 /\ nav'.m.view = "inputView"
                     => (nav'.m.input.focus >= 0 /\ nav'.m.input.focus < n)]_vars

\* The form of Restore has been submitted with both fields filled, and its
\* inputSubmitMsg is on its way.
C36_Witness ==
    /\ mode = "input" /\ nav.m.view = "inputView"
    /\ nav.m.input.command = "restore" /\ nav.m.input.focus = 1
    /\ RequiredFilled(nav.m.input)
    /\ \E f \in nav.flight : f.type = "inputSubmitMsg"

(***************************************************************************)
(* Properties of esc                                                       *)
(***************************************************************************)
\* The view one level up.
Parent(v) ==
    CASE v = "commandView" -> "categoryView"
      [] v = "outputView" -> "commandView"
      [] v = "monitorView" -> "commandView"
      [] v = "inputView" -> "commandView"
      [] v = "helpCommandView" -> "helpCategoryView"
      [] v = "helpDetailView" -> "helpCommandView"
      [] v = "helpCategoryView" -> "categoryView"

\* esc is pressed in a view other than the category menu.
EscPressed ==
    /\ mode = "views" /\ nav.m.view # "categoryView"
    /\ ~nav.quit /\ ~nav.panic
    /\ nav' = AfterKey(nav, "esc")

\* C37: esc pressed in a view other than the category menu shows the parent
\* of that view, and the program neither quits nor dies nor skips a level.
C37_EscReturnsToParent ==
    [][EscPressed
          => /\ ~nav'.quit /\ ~nav'.panic
             /\ nav'.m.view = Parent(nav.m.view)]_vars

\* C37 where the view is not the form and the category cursor is on a
\* category; in the form esc sends inputCancelMsg and leaves the view, and
\* the inputCancelMsg delivered over a category cursor on a category shows
\* the command submenu.
EscReturnsToParentOverCategory ==
    [][/\ (EscPressed /\ nav.m.catCursor < Len(Categories))
          => /\ ~nav'.quit /\ ~nav'.panic
             /\ nav.m.view # "inputView" => nav'.m.view = Parent(nav.m.view)
             /\ nav.m.view = "inputView"
                   => /\ nav'.m.view = "inputView"
                      /\ \E f \in nav'.flight \ nav.flight : f.type = "inputCancelMsg"
       /\ (/\ mode = "views" /\ nav.m.catCursor < Len(Categories)
           /\ \E f \in nav.flight : f.type = "inputCancelMsg" /\ nav' = AfterMsg(nav, f, 1))
          => /\ ~nav'.quit /\ ~nav'.panic
             /\ nav'.m.view = "commandView"]_vars

(***************************************************************************)
(* Properties of the progress bar                                          *)
(***************************************************************************)
\* The bar has progressBarWidth cells, floor(40 * c / 1000) of them filled,
\* for a percent of c thousandths once clamped.
BarOf(bar, c) ==
    /\ ~bar.panic
    /\ bar.filled >= 0 /\ bar.filled <= progressBarWidth
    /\ bar.filled + bar.empty = progressBarWidth
    /\ bar.filled * 1000 <= progressBarWidth * c
    /\ (bar.filled + 1) * 1000 > progressBarWidth * c

\* C40: renderProgressBar draws exactly progressBarWidth (40) cells for any
\* percent value: filled is floor(40 * percent) of the percent clamped to
\* [0,1], lies in 0..40, and filled + empty = 40.
C40_BarHasFortyCells ==
    (mode = "bar" /\ fmt.done)
        => \E c \in 0..1000 :
              /\ fmt.percent.kind = "num"
                    => c = (IF fmt.percent.milli < 0 THEN 0
                            ELSE IF fmt.percent.milli > 1000 THEN 1000
                            ELSE fmt.percent.milli)
              /\ BarOf(fmt.bar, c)

\* C40 for the percents that are not NaN; the infinities are clamped to 1
\* and 0 as the numbers beyond them are.
BarHasFortyCellsUnlessNaN ==
    (mode = "bar" /\ fmt.done /\ fmt.percent # NaN)
        => BarOf(fmt.bar,
                 CASE fmt.percent.kind = "+Inf" -> 1000
                   [] fmt.percent.kind = "-Inf" -> 0
                   [] fmt.percent.milli < 0 -> 0
                   [] fmt.percent.milli > 1000 -> 1000
                   [] OTHER -> fmt.percent.milli)

====
